---- MODULE Spec2Model ----
(***************************************************************************)
(* A state-machine model of the sauos automation engine:                   *)
(*   - TaskScheduler   (src/sauos/scheduler.py)                            *)
(*   - AIAgent         (src/sauos/ai/agent.py)                             *)
(*   - ImageMatcher    (src/sauos/core/image.py)                           *)
(*   - the plan parsers (src/web.py, src/run.py, src/sauos/ai/vision.py)   *)
(*   - the web host's task worker and its request handlers (src/web.py)    *)
(*   - the polling waits (src/sauos/core/image.py, src/sauos/automation.py)*)
(*   - the scroll and wait branches of the action executors                *)
(*     (src/sauos/ai/agent.py, src/web.py, src/run.py)                     *)
(*   - AIAgent's auxiliary operations click, find_and_click and type_at    *)
(* Each component has its own specification (SpecSched, SpecAgent,         *)
(* SpecLocator, SpecParser, SpecWeb, SpecWait, SpecExec, SpecAux); the     *)
(* other components are not in use and their variables do not change.      *)
(***************************************************************************)
EXTENDS Integers, Sequences, FiniteSets, TLC

VARIABLES
    \* ---- TaskScheduler (scheduler.py) ----
    tasks,          \* self.tasks: the list of Task records
    results,        \* self.results: the list of TaskResult records
    s_running,      \* self._running
    s_cancelled,    \* self._cancelled
    s_pc,           \* position of the thread inside run()/_execute_task()
    s_stop,         \* run()'s stop_on_error argument
    s_idx,          \* position of the `for task in self.tasks` loop (1-based)
    s_attempt,      \* `attempt` of the retry loop
    s_last_error,   \* `last_error` of _execute_task
    s_ret,          \* the TaskResult _execute_task has built
    s_ended,        \* how the last run() call ended: none / returned / raised
    s_calls,        \* observation: invocation counters of the _execute_task call
    s_touched,      \* observation: positions whose condition or action this run invoked
    s_obs,          \* observation: the task list's length at run(), where cancel() came
    s_summary,      \* what get_summary() has just returned
    \* ---- AIAgent (agent.py) ----
    a_max_steps,    \* self.max_steps
    a_running,      \* self._running
    a_cancelled,    \* self._cancelled
    a_pc,           \* position of the thread inside run()
    a_step,         \* `step` of the for loop
    a_plan,         \* `plan` returned by vision.plan_action
    a_steps,        \* result.steps
    a_success,      \* result.success
    a_final,        \* result.final_message
    a_ended,        \* how the last run() call ended: none / returned / raised
    a_obs,          \* observation: what this run did (captures, decisions, ...)
    \* ---- ImageMatcher (image.py) ----
    l_threshold,    \* self.threshold
    l_call,         \* the last call on the matcher: operation, arguments, return value
    \* ---- plan parsers (web.py, run.py, vision.py) ----
    p_call,         \* the last parser call: parser, plan text, outcome
    \* ---- web host (web.py) ----
    task_state,     \* the dict the global name task_state is bound to
    w_pc,           \* per worker thread: its position inside run_task_thread
    w_step,         \* per worker thread: `step` of its for loop
    w_pend,         \* per worker thread: (done, msg) or the exception of its step
    w_starts,       \* /api/task/start handlers about to start a worker thread
    w_resp,         \* the answer of the last /api/task/start request
    w_obs,          \* observation: stop requests, where an automation primitive raised
    w_snap,         \* what /api/task/status has just answered
    \* ---- polling waits (image.py wait_for, automation.py wait_until_gone) ----
    wt_call,        \* the call: operation, timeout, interval
    wt_pc,          \* position of the thread inside the wait
    wt_now,         \* the clock time.time() reads, in ticks
    wt_start,       \* start_time
    wt_ret,         \* the value returned
    wt_obs,         \* observation: captures, sleeps, what lay between two captures
    \* ---- action executors (agent.py _execute_action, web.py and run.py execute_action) ----
    x_log,          \* the calls made on the automation object and on time.sleep, per executed action
    \* ---- auxiliary operations (agent.py click, find_and_click, type_at) ----
    u_call,         \* the call: operation, timeout
    u_pc,           \* position of the thread inside the operation
    u_now,          \* the clock time.time() reads, in ticks of half a second
    u_start,        \* start_time of find_and_click
    u_ret,          \* the value returned
    u_log,          \* the calls made on the automation object
    u_obs           \* observation: polls made, what each resolved

schedVars == <<tasks, results, s_running, s_cancelled, s_pc, s_stop, s_idx,
               s_attempt, s_last_error, s_ret, s_ended, s_calls, s_touched,
               s_obs, s_summary>>
agentVars == <<a_max_steps, a_running, a_cancelled, a_pc, a_step, a_plan,
               a_steps, a_success, a_final, a_ended, a_obs>>
locatorVars == <<l_threshold, l_call>>
parserVars == <<p_call>>
webVars == <<task_state, w_pc, w_step, w_pend, w_starts, w_resp, w_obs,
             w_snap>>
waitVars == <<wt_call, wt_pc, wt_now, wt_start, wt_ret, wt_obs>>
execVars == <<x_log>>
auxVars == <<u_call, u_pc, u_now, u_start, u_ret, u_log, u_obs>>
vars == <<schedVars, agentVars, locatorVars, parserVars, webVars, waitVars, execVars, auxVars>>

\* What an action of one component leaves alone: the other components.
notSched == <<agentVars, locatorVars, parserVars, webVars, waitVars, execVars, auxVars>>
notAgent == <<schedVars, locatorVars, parserVars, webVars, waitVars, execVars, auxVars>>
notLocator == <<schedVars, agentVars, parserVars, webVars, waitVars, execVars, auxVars>>
notParser == <<schedVars, agentVars, locatorVars, webVars, waitVars, execVars, auxVars>>
notWeb == <<schedVars, agentVars, locatorVars, parserVars, waitVars, execVars, auxVars>>
notWait == <<schedVars, agentVars, locatorVars, parserVars, webVars, execVars, auxVars>>
notExec == <<schedVars, agentVars, locatorVars, parserVars, webVars, waitVars, auxVars>>
notAux == <<schedVars, agentVars, locatorVars, parserVars, webVars, waitVars, execVars>>

\* ------------------------------------------------------------------ bounds
MaxTasks == 2
MaxRetry == 1
MaxSteps == 3
\* confidence and threshold levels: 0 is 0.0, MaxConf is 1.0
MaxConf == 2
\* peaks of a match response map
MaxCands == 3
\* length of the scales list
MaxScales == 2
\* tokens of a reason string
MaxReason == 2
\* tokens of the prose before and after an object
MaxProse == 1
\* tokens of an arbitrary plan text
MaxText == 3
\* worker threads the web host starts in one behaviour
MaxWorkers == 2
\* iterations of the web worker's loop (range(30) in web.py)
WebSteps == 2
\* the largest timeout of a polling wait, in ticks of the clock
MaxTimeout == 3
\* the largest interval of a polling wait, in ticks of the clock
MaxInterval == 2
\* the captures and sleeps of a polling wait that are counted
MaxPolls == 4
\* actions carried out one after the other by an action executor
MaxActs == 2
\* the largest timeout of find_and_click, in ticks of half a second
MaxAuxTimeout == 4

(***************************************************************************)
(*                           TaskScheduler                                 *)
(***************************************************************************)

\* TaskStatus (scheduler.py:17-24)
TaskStatus == {"pending", "running", "completed", "failed", "skipped", "cancelled"}

NoError == <<"none", 0>>
\* The exception raised by the n-th invocation of a callable of the task.
Exc(src, n) == <<src, n>>

\* Task (scheduler.py:41-54); condition/on_success/on_failure record whether the
\* optional callable is set, __post_init__ sets status to PENDING.
Task(cond, retry, succ, fail) ==
    [condition |-> cond, retry_count |-> retry, on_success |-> succ,
     on_failure |-> fail, status |-> "pending"]

\* TaskResult (scheduler.py:27-38); task_name is the task's position.
TaskResult(name, status, result, error) ==
    [task_name |-> name, status |-> status, result |-> result, error |-> error]

NoResult == TaskResult(0, "pending", 0, NoError)

\* TaskResult.success (scheduler.py:36-38)
Success(r) == r.status = "completed"

\* range(task.retry_count + 1) (scheduler.py:173): the number of attempts.
AttemptsOffByOne(task) == task.retry_count
Attempts(task) == task.retry_count + 1

\* `if attempt < task.retry_count` (scheduler.py:196): sleep before a retry.
SleepsBeforeRetry(task, attempt) == attempt < task.retry_count

\* `last_error = e` (scheduler.py:193)
KeepFirstError(old, e) == IF old = NoError THEN e ELSE old
RecordError(old, e) == e

\* `if not result.success and stop_on_error` (scheduler.py:151)
NeverStops(r, stop) == FALSE
ShouldStop(r, stop) == ~Success(r) /\ stop

\* `self.results.append(result)` (scheduler.py:149)
KeepLastResult(log, r) == <<r>>
AppendResult(log, r) == Append(log, r)

\* `if self._cancelled` (scheduler.py:144)
SchedCancelIgnored(flag) == FALSE
SchedCancelObserved(flag) == flag

\* `if task.condition and not task.condition(self.automation)`
\* (scheduler.py:163): value is what the condition callable returned.
ConditionNeverSkips(task, value) == FALSE
ConditionSkips(task, value) == task.condition /\ ~value

\* Observation of the _execute_task call in progress (or last made): how often
\* each callable of the task was invoked and how often the retry sleep ran,
\* how often the condition returned false, and the invocation of the action
\* that was the first to return normally (0: none has).
ZeroCalls == [cond |-> 0, cond_false |-> 0, act |-> 0, ok |-> 0, first_ok |-> 0,
              sleeps |-> 0, on_success |-> 0, on_failure |-> 0]

\* Observation of the run() call in progress (or last made): the length of the
\* task list when run() was entered, and the position of the task that was
\* being executed when cancel() was first called (0: cancel() was not called
\* while a task was being executed).
ZeroRun == [ntasks |-> 0, cancelAt |-> 0]

Bump(calls, f) == [calls EXCEPT ![f] = @ + 1]

\* sum(1 for r in self.results if r.status == status) (scheduler.py:230-232)
CountAll(log, status) == Len(log)
RECURSIVE CountStatus(_, _)
CountStatus(log, status) ==
    IF log = <<>> THEN 0
    ELSE (IF Head(log).status = status THEN 1 ELSE 0) + CountStatus(Tail(log), status)

\* `completed / total if total > 0 else 0` (scheduler.py:239), the quotient as
\* the fraction <<numerator, denominator>>
SuccessRate(completed, total) ==
    IF total > 0 THEN <<completed, total>> ELSE <<0, 1>>

\* TaskScheduler.get_summary (scheduler.py:227-243), without the durations
GetSummary(log) ==
    LET total == Len(log)
        completed == CountStatus(log, "completed")
        failed == CountStatus(log, "failed")
        skipped == CountStatus(log, "skipped")
    IN  [total_tasks |-> total, completed |-> completed, failed |-> failed,
         skipped |-> skipped, success_rate |-> SuccessRate(completed, total),
         results |-> log]

\* no caller holds a summary
NoSummary == <<>>

SchedInit ==
    /\ tasks = <<>>
    /\ results = <<>>
    /\ s_running = FALSE
    /\ s_cancelled = FALSE
    /\ s_pc = "idle"
    /\ s_stop = FALSE
    /\ s_idx = 0
    /\ s_attempt = 0
    /\ s_last_error = NoError
    /\ s_ret = NoResult
    /\ s_ended = "none"
    /\ s_calls = ZeroCalls
    /\ s_touched = {}
    /\ s_obs = ZeroRun
    /\ s_summary = NoSummary

\* TaskScheduler.add (scheduler.py:78-103), or a Task built with hooks and
\* appended to scheduler.tasks. The tasks added retry not at all or MaxRetry
\* times.
SchedAdd ==
    /\ s_summary' = NoSummary
    /\ s_pc = "idle"
    /\ s_summary = NoSummary
    /\ Len(tasks) < MaxTasks
    /\ \E cond \in BOOLEAN, retry \in {0, MaxRetry}, hooks \in BOOLEAN :
         tasks' = Append(tasks, Task(cond, retry, hooks, hooks))
    /\ UNCHANGED <<results, s_running, s_cancelled, s_pc, s_stop, s_idx,
                   s_attempt, s_last_error, s_ret, s_ended, s_calls, s_touched,
                   s_obs>>
    /\ UNCHANGED notSched

\* TaskScheduler.clear (scheduler.py:221-225); the observations of the discarded
\* log are discarded with it.
SchedClear ==
    /\ s_summary' = NoSummary
    /\ s_pc = "idle"
    /\ s_summary = NoSummary
    /\ tasks' = <<>>
    /\ results' = <<>>
    /\ s_calls' = ZeroCalls
    /\ s_touched' = {}
    /\ s_obs' = ZeroRun
    /\ UNCHANGED <<s_running, s_cancelled, s_pc, s_stop, s_idx,
                   s_attempt, s_last_error, s_ret, s_ended>>
    /\ UNCHANGED notSched

\* run() is between the call of _execute_task for a task and the append of its
\* TaskResult (scheduler.py:148-149).
SchedInTask == s_pc \in {"cond", "attempt", "on_success", "on_failure", "append"}

\* TaskScheduler.is_running (scheduler.py:216-219)
SchedIsRunning == s_running

\* TaskScheduler.cancel (scheduler.py:212-214), callable from any thread.
SchedCancel ==
    /\ s_summary' = NoSummary
    /\ s_cancelled' = TRUE
    /\ s_obs' = IF SchedInTask /\ s_obs.cancelAt = 0
                THEN [s_obs EXCEPT !.cancelAt = s_idx]
                ELSE s_obs
    /\ UNCHANGED <<tasks, results, s_running, s_pc, s_stop, s_idx,
                   s_attempt, s_last_error, s_ret, s_ended, s_calls, s_touched>>
    /\ UNCHANGED notSched

\* run(): `self._running = True` (scheduler.py:139)
SchedRunEnter ==
    /\ s_summary' = NoSummary
    /\ s_pc = "idle"
    /\ s_summary = NoSummary
    /\ \E stop \in BOOLEAN : s_stop' = stop
    /\ s_running' = TRUE
    /\ s_pc' = "init"
    /\ s_ended' = "none"
    /\ s_calls' = ZeroCalls
    /\ s_touched' = {}
    /\ s_obs' = [ntasks |-> Len(tasks), cancelAt |-> 0]
    /\ UNCHANGED <<tasks, results, s_cancelled, s_idx, s_attempt, s_last_error,
                   s_ret>>
    /\ UNCHANGED notSched

\* run(): `self._cancelled = False; self.results = []` (scheduler.py:140-141)
SchedRunInit ==
    /\ s_summary' = NoSummary
    /\ s_pc = "init"
    /\ s_cancelled' = FALSE
    /\ results' = <<>>
    /\ s_idx' = 1
    /\ s_pc' = "loop"
    /\ UNCHANGED <<tasks, s_running, s_stop, s_attempt, s_last_error, s_ret,
                   s_ended, s_calls, s_touched, s_obs>>
    /\ UNCHANGED notSched

\* The frame of run() is left: its locals are gone.
SchedLeave(how) ==
    /\ s_pc' = "idle"
    /\ s_ended' = how
    /\ s_idx' = 0
    /\ s_attempt' = 0
    /\ s_last_error' = NoError
    /\ s_ret' = NoResult

\* run(): `self._running = False; return self.results` (scheduler.py:155-156)
SchedFinish ==
    /\ s_running' = FALSE
    /\ SchedLeave("returned")

\* An exception leaves run(): nothing after the raising statement executes.
SchedRaise ==
    /\ UNCHANGED s_running
    /\ SchedLeave("raised")

\* run(): head of `for task in self.tasks`, the cancellation check, the call of
\* _execute_task (scheduler.py:143-148)
SchedLoop ==
    /\ s_summary' = NoSummary
    /\ s_pc = "loop"
    /\ IF s_idx > Len(tasks) \/ SchedCancelObserved(s_cancelled)
       THEN /\ SchedFinish
            /\ UNCHANGED s_calls
       ELSE /\ s_pc' = "cond"
            /\ s_attempt' = 0
            /\ s_last_error' = NoError
            /\ s_calls' = ZeroCalls
            /\ UNCHANGED <<s_running, s_ended, s_idx, s_ret>>
    /\ UNCHANGED <<tasks, results, s_cancelled, s_stop, s_touched, s_obs>>
    /\ UNCHANGED notSched

\* _execute_task: the condition check (scheduler.py:163-169)
SchedCond ==
    /\ s_summary' = NoSummary
    /\ s_pc = "cond"
    /\ LET task == tasks[s_idx] IN
       IF ~task.condition
       THEN /\ s_pc' = "attempt"
            /\ UNCHANGED <<s_ret, s_calls, s_touched, s_running, s_ended, s_idx,
                           s_attempt, s_last_error>>
       ELSE \E outcome \in {"true", "false", "raise"} :
              LET c1 == Bump(s_calls, "cond") IN
              /\ s_touched' = s_touched \cup {s_idx}
              /\ s_calls' = IF outcome = "false" THEN Bump(c1, "cond_false") ELSE c1
              /\ IF outcome = "raise"
                 THEN SchedRaise
                 ELSE IF ConditionSkips(task, outcome = "true")
                 THEN /\ s_ret' = TaskResult(s_idx, "skipped", 0, NoError)
                      /\ s_pc' = "append"
                      /\ UNCHANGED <<s_running, s_ended, s_idx, s_attempt,
                                     s_last_error>>
                 ELSE /\ s_pc' = "attempt"
                      /\ UNCHANGED <<s_ret, s_running, s_ended, s_idx,
                                     s_attempt, s_last_error>>
    /\ UNCHANGED <<tasks, results, s_cancelled, s_stop, s_obs>>
    /\ UNCHANGED notSched

\* The except clause of the retry loop (scheduler.py:192-197): record the error,
\* sleep when a retry follows, go to the next attempt.
SchedExcept(task, e, calls) ==
    /\ s_last_error' = RecordError(s_last_error, e)
    /\ s_calls' = IF SleepsBeforeRetry(task, s_attempt)
                  THEN Bump(calls, "sleeps") ELSE calls
    /\ s_attempt' = s_attempt + 1
    /\ s_pc' = "attempt"

\* _execute_task: one pass of `for attempt in range(...)`, the action call
\* (scheduler.py:173-185), and the FAILED result after the loop (199-205).
SchedAttempt ==
    /\ s_summary' = NoSummary
    /\ s_pc = "attempt"
    /\ LET task == tasks[s_idx] IN
       IF s_attempt >= Attempts(task)
       THEN /\ s_ret' = TaskResult(s_idx, "failed", 0, s_last_error)
            /\ s_pc' = "on_failure"
            /\ UNCHANGED <<s_attempt, s_last_error, s_calls, s_touched>>
       ELSE \E outcome \in {"ok", "raise"} :
              LET n == s_calls.act + 1
                  c1 == Bump(s_calls, "act") IN
              /\ s_touched' = s_touched \cup {s_idx}
              /\ IF outcome = "ok"
                 THEN /\ s_ret' = TaskResult(s_idx, "completed", n, NoError)
                      /\ s_pc' = "on_success"
                      /\ s_calls' = [Bump(c1, "ok") EXCEPT !.first_ok =
                                       IF @ = 0 THEN n ELSE @]
                      /\ UNCHANGED <<s_attempt, s_last_error>>
                 ELSE /\ SchedExcept(task, Exc("action", n), c1)
                      /\ UNCHANGED s_ret
    /\ UNCHANGED <<tasks, results, s_running, s_cancelled, s_stop, s_idx, s_ended,
                   s_obs>>
    /\ UNCHANGED notSched

\* _execute_task: `if task.on_success: task.on_success(result)`, inside the try
\* block (scheduler.py:187-190): an exception of the hook is caught by the
\* except clause of the retry loop like one of the action.
SchedOnSuccess ==
    /\ s_summary' = NoSummary
    /\ s_pc = "on_success"
    /\ LET task == tasks[s_idx] IN
       IF ~task.on_success
       THEN /\ s_pc' = "append"
            /\ UNCHANGED <<s_attempt, s_last_error, s_calls>>
       ELSE \E outcome \in {"ok", "raise"} :
              LET n == s_calls.on_success + 1
                  c1 == Bump(s_calls, "on_success") IN
              IF outcome = "ok"
              THEN /\ s_pc' = "append"
                   /\ s_calls' = c1
                   /\ UNCHANGED <<s_attempt, s_last_error>>
              ELSE SchedExcept(task, Exc("on_success", n), c1)
    /\ UNCHANGED <<tasks, results, s_running, s_cancelled, s_stop, s_idx, s_ret,
                   s_ended, s_touched, s_obs>>
    /\ UNCHANGED notSched

\* _execute_task: `if task.on_failure: task.on_failure(result)`, outside any try
\* (scheduler.py:207-210).
SchedOnFailure ==
    /\ s_summary' = NoSummary
    /\ s_pc = "on_failure"
    /\ LET task == tasks[s_idx] IN
       IF ~task.on_failure
       THEN /\ s_pc' = "append"
            /\ UNCHANGED <<s_calls, s_running, s_ended, s_idx, s_attempt,
                           s_last_error, s_ret>>
       ELSE \E outcome \in {"ok", "raise"} :
              /\ s_calls' = Bump(s_calls, "on_failure")
              /\ IF outcome = "ok"
                 THEN /\ s_pc' = "append"
                      /\ UNCHANGED <<s_running, s_ended, s_idx, s_attempt,
                                     s_last_error, s_ret>>
                 ELSE SchedRaise
    /\ UNCHANGED <<tasks, results, s_cancelled, s_stop, s_touched, s_obs>>
    /\ UNCHANGED notSched

\* run(): `self.results.append(result)` and the stop_on_error check
\* (scheduler.py:148-153)
SchedAppend ==
    /\ s_summary' = NoSummary
    /\ s_pc = "append"
    /\ results' = AppendResult(results, s_ret)
    /\ IF ShouldStop(s_ret, s_stop)
       THEN SchedFinish
       ELSE /\ s_idx' = s_idx + 1
            /\ s_pc' = "loop"
            /\ UNCHANGED <<s_running, s_ended, s_attempt, s_last_error, s_ret>>
    /\ UNCHANGED <<tasks, s_cancelled, s_stop, s_calls, s_touched, s_obs>>
    /\ UNCHANGED notSched

\* get_summary() called between the operations on the scheduler; the caller holds
\* the summary until SchedSummaryReturn
SchedGetSummary ==
    /\ s_pc = "idle"
    /\ s_summary = NoSummary
    /\ s_summary' = <<GetSummary(results)>>
    /\ UNCHANGED <<tasks, results, s_running, s_cancelled, s_pc, s_stop, s_idx,
                   s_attempt, s_last_error, s_ret, s_ended, s_calls, s_touched,
                   s_obs>>
    /\ UNCHANGED notSched

\* The caller of get_summary() goes on to its next operation.
SchedSummaryReturn ==
    /\ s_pc = "idle"
    /\ s_summary # NoSummary
    /\ s_summary' = NoSummary
    /\ UNCHANGED <<tasks, results, s_running, s_cancelled, s_pc, s_stop, s_idx,
                   s_attempt, s_last_error, s_ret, s_ended, s_calls, s_touched,
                   s_obs>>
    /\ UNCHANGED notSched

SchedNext ==
    \/ SchedGetSummary
    \/ SchedSummaryReturn
    \/ SchedAdd
    \/ SchedClear
    \/ SchedCancel
    \/ SchedRunEnter
    \/ SchedRunInit
    \/ SchedLoop
    \/ SchedCond
    \/ SchedAttempt
    \/ SchedOnSuccess
    \/ SchedOnFailure
    \/ SchedAppend

(***************************************************************************)
(*                               AIAgent                                   *)
(***************************************************************************)

\* ActionType (agent.py:18-26)
ExecutableTypes == {"click", "type", "scroll", "hotkey", "wait"}
ActionType == ExecutableTypes \cup {"done", "error"}

\* What vision.plan_action returns (vision.py:104-128, 264-271), the value
\* json.loads made of the response text:
\*   shape        "object": an object whose "action" is an object or absent;
\*                "bad_action": an object whose "action" is no object (null, a
\*                string, a number, a list); "bad_plan": no object at all (a
\*                list, null, a number, a string)
\*   type         the value of action.type ("unknown" stands for any value that
\*                is no ActionType, "missing" for an absent key)
\*   can_proceed  the truth value of can_proceed, True when absent
\*   fields       the fields the action type needs (x and y of click, text of
\*                type, keys of hotkey): "absent" (a key is missing or null),
\*                "empty" (present and falsy: x = 0 and y = 0, text "",
\*                keys []), "given" (any other value the primitive can be
\*                handed: non-zero coordinates, a true text, keys that are
\*                true and iterable), "scalar" (keys that are true and not
\*                iterable: a number, true)
\*   duration     the duration of wait: "absent" (missing, null or another
\*                false value: 0, 0.0, false, "", [], {}), "number" (a
\*                positive number time.sleep sleeps for, or true), "huge" (a
\*                number beyond the range time.sleep converts, which ends a
\*                little beyond 9.2e9 seconds in either direction: 1e10,
\*                -1e10, 10**20, Infinity, -Infinity), "limit" (a positive
\*                number time.sleep converts and the clock of the platform
\*                rejects, the deadline lying beyond what it can hold:
\*                9223372036), "negative" (a negative number within the
\*                range, or NaN), "text" (a true value that is no number: a
\*                string, a list, an object)
\*   reason       whether "reason" is present; run() reads it only of a plan
\*                that ends the run, and the plans that are executed are
\*                taken with one
\* json.loads makes no value of a text nested deeper than the interpreter can
\* follow, nor of one with an integer literal of more than 4300 digits: see
\* PlanActionErrors.
\* The fields and the duration are used by _execute_action alone: the plans
\* that may not proceed, which are never executed, are taken without them.
PlanTypes == ActionType \cup {"unknown", "missing"}
PlanShapes == {"object", "bad_action", "bad_plan"}
FieldStates == {"absent", "empty", "given", "scalar"}
DurationStates == {"absent", "number", "huge", "limit", "negative", "text"}
FieldTypes == {"click", "type", "hotkey"}
NoPlan == [shape |-> "object", type |-> "missing", can_proceed |-> TRUE,
           fields |-> "absent", duration |-> "absent", reason |-> FALSE]
\* Of a value that is not of shape "object" nothing but its shape is read.
BadPlan(shape) == [NoPlan EXCEPT !.shape = shape]
Plans ==
    {p \in [shape : PlanShapes, type : PlanTypes, can_proceed : BOOLEAN,
            fields : FieldStates, duration : DurationStates, reason : BOOLEAN] :
        /\ p.type \notin FieldTypes => p.fields = "absent"
        /\ p.type # "hotkey" => p.fields # "scalar"
        /\ p.type # "wait" => p.duration = "absent"
        /\ (p.type \in ExecutableTypes /\ p.can_proceed) => p.reason
        /\ ~p.can_proceed => (p.fields = "absent" /\ p.duration = "absent")
        /\ p.shape # "object" => p = BadPlan(p.shape)}

\* The plan vision.plan_action returns when the response text is not valid
\* JSON (vision.py:265-271): action type error, can_proceed False, a reason.
ErrorPlan == [shape |-> "object", type |-> "error", can_proceed |-> FALSE,
              fields |-> "absent", duration |-> "absent", reason |-> TRUE]

\* _parse_action (agent.py:200-201): `plan.get("action", {})` and
\* `action_data.get("type", "error")` raise AttributeError on a value that has
\* no get method.
ParseActionRaises(plan) == plan.shape # "object"

\* _parse_action (agent.py:198-218): action_data.get("type", "error"), and
\* ActionType(...) with ValueError mapped to ERROR.
ParseActionType(plan) ==
    IF plan.type \in ActionType THEN plan.type ELSE "error"

\* `if action.type == ActionType.DONE` (agent.py:157)
NeverDone(plan) == FALSE
IsDone(plan) == ParseActionType(plan) = "done"

\* `if action.type == ActionType.ERROR or not plan.get("can_proceed", True)`
\* (agent.py:163)
CannotProceed(plan) == ParseActionType(plan) = "error" \/ ~plan.can_proceed

\* plan.get("reason", <default>) (agent.py:159, 164)
Reason(plan, default) == IF plan.reason THEN "reason" ELSE default

\* The ValueError _execute_action raises for a click without coordinates, a
\* type without text, a hotkey without keys (agent.py:226, 232, 245).
MissingField(t) == <<"ValueError", t>>
\* `action.x is not None and action.y is not None` (agent.py:223),
\* `if action.text` (agent.py:229), `if action.keys` (agent.py:242)
FieldsUsable(t, fields) ==
    IF t = "click" THEN fields # "absent" ELSE fields \in {"given", "scalar"}
\* `self.automation.hotkey(*action.keys)` (agent.py:243): keys that are not
\* iterable cannot be unpacked, and the TypeError is raised before the
\* primitive is invoked.
KeysUnpackable(fields) == fields # "scalar"
UnpackError(t) == <<"TypeError", t>>
\* `duration = action.duration or 1.0; time.sleep(duration)` (agent.py:248-249):
\* time.sleep raises TypeError for a value that is no number, OverflowError
\* for a number beyond the range it converts, of either sign (the range is
\* checked before the sign), ValueError for a negative number within the range
\* and for NaN, and OSError for a number it converts and the clock rejects.
SleepRaises(duration) == duration \in {"huge", "limit", "negative", "text"}
SleepError(duration) ==
    <<CASE duration = "negative" -> "ValueError"
        [] duration = "huge" -> "OverflowError"
        [] duration = "limit" -> "OSError"
        [] OTHER -> "TypeError",
      "wait">>
\* The exception of a failing injection primitive.
PrimitiveError(t) == <<"primitive", t>>

\* _execute_action (agent.py:220-249): the primitive it invokes ("none" when it
\* raises before any, and for wait, which only sleeps), whether it raises and
\* what; primFails is the injection primitive failing.
ExecuteAction(plan, primFails) ==
    LET t == ParseActionType(plan)
        prim(p) == [prim |-> p, raised |-> primFails,
                    error |-> IF primFails THEN PrimitiveError(p) ELSE NoError]
    IN
    CASE t \in FieldTypes ->
           IF ~FieldsUsable(t, plan.fields)
           THEN [prim |-> "none", raised |-> TRUE, error |-> MissingField(t)]
           ELSE IF t = "hotkey" /\ ~KeysUnpackable(plan.fields)
           THEN [prim |-> "none", raised |-> TRUE, error |-> UnpackError(t)]
           ELSE prim(t)
      [] t = "scroll" -> prim("scroll")
      [] t = "wait" ->
           IF SleepRaises(plan.duration)
           THEN [prim |-> "none", raised |-> TRUE,
                 error |-> SleepError(plan.duration)]
           ELSE [prim |-> "none", raised |-> FALSE, error |-> NoError]
      [] OTHER -> [prim |-> "none", raised |-> FALSE, error |-> NoError]

\* What the decision source is told of the steps made so far:
\* `self.vision.plan_action(screenshot, task)` (agent.py:146) passes the frame
\* and the task, and plan_action builds its one message from the task alone
\* (vision.py:252-255).
PlanActionHistory(steps) == <<>>

\* StepResult (agent.py:43-51)
StepResult(step, type, success, error) ==
    [step |-> step, action |-> type, success |-> success, error |-> error]

\* `result.steps.append(step_result)` (agent.py:185)
DropStep(steps, r) == steps
AppendStep(steps, r) == Append(steps, r)

\* range(self.max_steps) (agent.py:124)
StepLimitOffByOne(max) == max + 1
StepLimit(max) == max

\* `if self._cancelled` (agent.py:125)
AgentCancelObserved(flag) == flag

NoCancel == 0 - 1

\* Observation of the run in progress (or last made): the steps for which a
\* capture, a decision-source call and _execute_action were made, the automation
\* primitives invoked, the step of the last boundary check, the first boundary
\* not yet checked when cancel() was first called inside the loop, whether
\* some plan was not an executable action that may proceed, the last plan
\* plan_action returned (what run() itself reads of it: the shape, the action
\* type, can_proceed and the reason) and its step, the step whose response
\* text was not
\* valid JSON, the step at which the decision source raised, the steps whose
\* _execute_action raised, what left run() (the collaborator that raised,
\* "parse" for the AttributeError of _parse_action, or the class of the
\* exception plan_action raised on the response text),
\* whether cancel() was called between the last run and this one or while this
\* one was starting up (remembered until the run first calls the decision
\* source), whether it was called since this run ended, and the earlier steps
\* whose summaries the last decision-source call was given.
ZeroObs == [captures |-> {}, decisions |-> {}, execs |-> {}, prims |-> 0,
            lastCheck |-> NoCancel, cancelK |-> NoCancel, notExec |-> FALSE,
            plan |-> NoPlan, planStep |-> NoCancel, badTextAt |-> NoCancel,
            raisedAt |-> NoCancel, execRaised |-> {}, exc |-> "none",
            pending |-> FALSE, idleCancel |-> FALSE, given |-> <<>>]

AgentInit ==
    /\ a_max_steps \in 0..MaxSteps
    /\ a_running = FALSE
    /\ a_cancelled = FALSE
    /\ a_pc = "idle"
    /\ a_step = 0
    /\ a_plan = NoPlan
    /\ a_steps = <<>>
    /\ a_success = FALSE
    /\ a_final = ""
    /\ a_ended = "none"
    /\ a_obs = ZeroObs

AgentInLoop == a_pc \in {"check", "capture", "plan", "decide", "execute"}

\* AIAgent.cancel (agent.py:325-327), callable from any thread.
AgentCancel ==
    /\ a_cancelled' = TRUE
    /\ a_obs' = IF AgentInLoop /\ a_obs.cancelK = NoCancel
                THEN [a_obs EXCEPT !.cancelK =
                        IF a_pc = "check" THEN a_step ELSE a_step + 1]
                ELSE IF a_pc = "init"
                THEN [a_obs EXCEPT !.pending = TRUE]
                ELSE IF a_pc = "idle"
                THEN [a_obs EXCEPT !.idleCancel = TRUE]
                ELSE a_obs
    /\ UNCHANGED <<a_max_steps, a_running, a_pc, a_step, a_plan, a_steps,
                   a_success, a_final, a_ended>>
    /\ UNCHANGED notAgent

\* run(): `self._running = True` (agent.py:116). The result of the call before
\* is its caller's: this call has none until it makes its own (agent.py:119).
AgentRunEnter ==
    /\ a_pc = "idle"
    /\ a_running' = TRUE
    /\ a_pc' = "init"
    /\ a_ended' = "none"
    /\ a_steps' = <<>>
    /\ a_success' = FALSE
    /\ a_final' = ""
    /\ a_obs' = [ZeroObs EXCEPT !.pending = a_obs.idleCancel]
    /\ UNCHANGED <<a_max_steps, a_cancelled, a_step, a_plan>>
    /\ UNCHANGED notAgent

\* run(): `self._cancelled = False; result = TaskResult(task=task, success=False)`
\* (agent.py:117-119)
AgentRunInit ==
    /\ a_pc = "init"
    /\ a_cancelled' = FALSE
    /\ a_steps' = <<>>
    /\ a_success' = FALSE
    /\ a_final' = ""
    /\ a_step' = 0
    /\ a_pc' = "check"
    /\ UNCHANGED <<a_max_steps, a_running, a_plan, a_ended, a_obs>>
    /\ UNCHANGED notAgent

\* The frame of run() is left: its locals are gone.
AgentLeave(how) ==
    /\ a_pc' = "idle"
    /\ a_ended' = how
    /\ a_step' = 0
    /\ a_plan' = NoPlan

\* AIAgent.is_running (agent.py:329-332)
AgentIsRunning == a_running

\* run(): `self._running = False; return result` (agent.py:193-196)
AgentFinish ==
    /\ a_running' = FALSE
    /\ AgentLeave("returned")

\* An exception leaves run(): nothing after the raising statement executes.
AgentRaise ==
    /\ UNCHANGED <<a_running, a_steps, a_success, a_final>>
    /\ AgentLeave("raised")

\* run(): head of `for step in range(self.max_steps)` with its else clause, and
\* the cancellation check (agent.py:124-127, 190-191)
AgentCheck ==
    /\ a_pc = "check"
    /\ IF a_step >= StepLimit(a_max_steps)
       THEN /\ a_final' = "step_limit"
            /\ AgentFinish
            /\ UNCHANGED a_obs
       ELSE IF AgentCancelObserved(a_cancelled)
       THEN /\ a_final' = "cancelled"
            /\ AgentFinish
            /\ a_obs' = [a_obs EXCEPT !.lastCheck = a_step]
       ELSE /\ a_pc' = "capture"
            /\ a_obs' = [a_obs EXCEPT !.lastCheck = a_step]
            /\ UNCHANGED <<a_final, a_running, a_ended, a_step, a_plan>>
    /\ UNCHANGED <<a_max_steps, a_cancelled, a_steps, a_success>>
    /\ UNCHANGED notAgent

\* run(): `screenshot = self.automation.screenshot()`, its saving and the
\* on_screenshot hook (agent.py:131-143); the capture collaborator, the saving
\* or the hook may raise.
AgentCapture ==
    /\ a_pc = "capture"
    /\ \E raises \in BOOLEAN :
         /\ a_obs' = [a_obs EXCEPT !.captures = @ \cup {a_step},
                                   !.exc = IF raises THEN "capture" ELSE @]
         /\ IF raises
            THEN AgentRaise
            ELSE /\ a_pc' = "plan"
                 /\ UNCHANGED <<a_running, a_ended, a_step, a_plan, a_steps,
                                a_success, a_final>>
    /\ UNCHANGED <<a_max_steps, a_cancelled>>
    /\ UNCHANGED notAgent

\* plan_action catches json.JSONDecodeError only (vision.py:257-265): the other
\* exceptions json.loads raises on a response text leave it, RecursionError
\* for a text nested deeper than the interpreter can follow and ValueError for
\* a text with an integer literal of more than 4300 digits.
PlanActionErrors == {"RecursionError", "ValueError"}

\* run(): `plan = self.vision.plan_action(screenshot, task)` (agent.py:146).
\* The decision source raises (transport failure): nothing catches it. Or it
\* answers: with a text on which plan_action raises, which nothing catches
\* either; with a text that is valid JSON, the plan; or with one json.loads
\* rejects with JSONDecodeError, for which plan_action returns ErrorPlan.
AgentPlan ==
    /\ a_pc = "plan"
    /\ \/ /\ a_obs' = [a_obs EXCEPT !.decisions = @ \cup {a_step},
                                    !.given = PlanActionHistory(a_steps),
                                    !.raisedAt = a_step,
                                    !.exc = "decision",
                                    !.pending = FALSE]
          /\ AgentRaise
       \/ \E cls \in PlanActionErrors :
            /\ a_obs' = [a_obs EXCEPT !.decisions = @ \cup {a_step},
                                      !.given = PlanActionHistory(a_steps),
                                      !.exc = cls,
                                      !.pending = FALSE]
            /\ AgentRaise
       \/ \E plan \in Plans, valid \in BOOLEAN :
            /\ ~valid => plan = ErrorPlan
            /\ a_plan' = plan
            /\ a_pc' = "decide"
            /\ a_obs' = [a_obs EXCEPT
                           !.decisions = @ \cup {a_step},
                           !.given = PlanActionHistory(a_steps),
                           !.notExec = @ \/ ParseActionType(plan) \notin ExecutableTypes
                                         \/ ~plan.can_proceed,
                           !.plan = [plan EXCEPT !.fields = "absent",
                                                 !.duration = "absent"],
                           !.planStep = a_step,
                           !.badTextAt = IF valid THEN @ ELSE a_step,
                           !.pending = FALSE]
            /\ UNCHANGED <<a_running, a_ended, a_step, a_steps, a_success, a_final>>
    /\ UNCHANGED <<a_max_steps, a_cancelled>>
    /\ UNCHANGED notAgent

\* `if self.on_step: self.on_step(step, action)` (agent.py:153-154): no hook is
\* set or the hook returns, or the hook raises.
OnStepOutcomes == {"returns", "raises"}

\* run(): `action = self._parse_action(plan)`, the on_step hook and the done /
\* error checks (agent.py:151-166). An AttributeError of _parse_action and an
\* exception of the hook leave run(): nothing catches them.
AgentDecide ==
    /\ a_pc = "decide"
    /\ IF ParseActionRaises(a_plan)
       THEN /\ a_obs' = [a_obs EXCEPT !.exc = "parse"]
            /\ AgentRaise
       ELSE \E hook \in OnStepOutcomes :
            IF hook = "raises"
            THEN /\ a_obs' = [a_obs EXCEPT !.exc = "on_step"]
                 /\ AgentRaise
            ELSE IF IsDone(a_plan)
            THEN /\ a_success' = TRUE
                 /\ a_final' = Reason(a_plan, "done_default")
                 /\ AgentFinish
                 /\ UNCHANGED <<a_steps, a_obs>>
            ELSE IF CannotProceed(a_plan)
            THEN /\ a_final' = Reason(a_plan, "cannot_proceed_default")
                 /\ AgentFinish
                 /\ UNCHANGED <<a_success, a_steps, a_obs>>
            ELSE /\ a_pc' = "execute"
                 /\ UNCHANGED <<a_running, a_ended, a_step, a_plan, a_success,
                                a_final, a_steps, a_obs>>
    /\ UNCHANGED <<a_max_steps, a_cancelled>>
    /\ UNCHANGED notAgent

\* run(): the try block around _execute_action, `result.steps.append(step_result)`
\* and the inter-step sleep (agent.py:169-188); step_delay is a delay
\* time.sleep accepts, as the default 1.0 is.
AgentExecute ==
    /\ a_pc = "execute"
    /\ \E primFails \in BOOLEAN :
         LET r == ExecuteAction(a_plan, primFails) IN
         /\ a_steps' = AppendStep(a_steps,
                                  StepResult(a_step, ParseActionType(a_plan),
                                             ~r.raised, r.error))
         /\ a_obs' = [a_obs EXCEPT
                        !.execs = @ \cup {a_step},
                        !.prims = IF r.prim = "none" THEN @ ELSE @ + 1,
                        !.execRaised = IF r.raised THEN @ \cup {a_step} ELSE @]
    /\ a_step' = a_step + 1
    /\ a_pc' = "check"
    /\ UNCHANGED <<a_max_steps, a_running, a_cancelled, a_plan, a_success,
                   a_final, a_ended>>
    /\ UNCHANGED notAgent

AgentNext ==
    \/ AgentCancel
    \/ AgentRunEnter
    \/ AgentRunInit
    \/ AgentCheck
    \/ AgentCapture
    \/ AgentPlan
    \/ AgentDecide
    \/ AgentExecute

(***************************************************************************)
(*                            ImageMatcher                                 *)
(* cv2.matchTemplate / cv2.minMaxLoc are the environment: their outputs    *)
(* (the response map, its extreme values and their locations) are inputs   *)
(* of the calls. Confidences and thresholds are points of a grid of        *)
(* levels, 0 standing for 0.0 and MaxConf for 1.0; TM_CCOEFF_NORMED also   *)
(* yields negative values, one level of which is kept.                     *)
(***************************************************************************)

\* Optional[...] values: None, or a one-element sequence holding the value.
None == <<>>
Some(v) == <<v>>

ConfLevels == (0 - 1)..MaxConf
ThresholdLevels == 0..MaxConf
ThresholdArgs == {None} \cup {Some(t) : t \in ThresholdLevels}

\* Locations (x, y) of the response map, and the template shapes (w, h) used.
Columns == {0, 1, 2}
Rows == {0, 1}
Positions == Columns \X Rows
TemplateSizes == {<<1, 1>>, <<3, 1>>, <<4, 2>>}
MultiscaleSizes == {<<1, 1>>, <<4, 2>>}

\* image.py:19-26
MatchResult(x, y, w, h, c) ==
    [x |-> x, y |-> y, width |-> w, height |-> h, confidence |-> c]

\* image.py:80, 131, 182: `threshold or self.threshold`. Python's `or` yields
\* its left operand only when that is truthy: neither None nor 0.0.
Truthy(threshold) == threshold # None /\ threshold[1] # 0

EffectiveThreshold(threshold, default) ==
    IF Truthy(threshold) THEN threshold[1] ELSE default

\* image.py:81-82, 98: the metric; None stands for the default metric.
Methods == {"None", "TM_CCOEFF_NORMED", "TM_SQDIFF_NORMED"}
SqdiffMethods == {"TM_SQDIFF_NORMED"}

\* image.py:95: what cv2.minMaxLoc returns for a metric. A normalized squared
\* difference lies in [0, 1].
ExtremeLocs == {<<0, 0>>, <<2, 1>>}
MinMaxLocs(method) ==
    { mm \in [min_val : ConfLevels, max_val : ConfLevels,
              min_loc : ExtremeLocs, max_loc : ExtremeLocs] :
         /\ mm.min_val <= mm.max_val
         /\ method \in SqdiffMethods => mm.min_val >= 0 }

\* image.py:98-103
BestConfidence(method, mm) ==
    IF method \in SqdiffMethods THEN MaxConf - mm.min_val ELSE mm.max_val

BestLocation(method, mm) ==
    IF method \in SqdiffMethods THEN mm.min_loc ELSE mm.max_loc

\* image.py:64-113  ImageMatcher.find
Find(threshold, default, method, mm, w, h) ==
    LET t == EffectiveThreshold(threshold, default)
        confidence == BestConfidence(method, mm)
        location == BestLocation(method, mm)
    IN  IF confidence >= t
        THEN Some(MatchResult(location[1], location[2], w, h, confidence))
        ELSE None

\* ---- find_all

Max(a, b) == IF a >= b THEN a ELSE b
Min(a, b) == IF a <= b THEN a ELSE b

\* image.py:248-263  _iou, as the exact fraction <<numerator, denominator>>.
Iou(m1, m2) ==
    LET x1 == Max(m1.x, m2.x)
        y1 == Max(m1.y, m2.y)
        x2 == Min(m1.x + m1.width, m2.x + m2.width)
        y2 == Min(m1.y + m1.height, m2.y + m2.height)
    IN  IF x2 <= x1 \/ y2 <= y1
        THEN <<0, 1>>
        ELSE LET intersection == (x2 - x1) * (y2 - y1)
                 area1 == m1.width * m1.height
                 area2 == m2.width * m2.height
                 union == area1 + area2 - intersection
             IN  IF union > 0 THEN <<intersection, union>> ELSE <<0, 1>>

\* a < b for fractions with positive denominators
RatLess(a, b) == a[1] * b[2] < b[1] * a[2]

\* image.py:156: overlap_threshold=0.5
OverlapThreshold == <<1, 2>>

\* image.py:145: np.where lists the locations row by row, so zip(*locations[::-1])
\* yields the points ordered by y, then x.
PointBefore(p, q) == p[2] < q[2] \/ (p[2] = q[2] /\ p[1] < q[1])

RECURSIVE RowMajor(_)
RowMajor(S) ==
    IF S = {} THEN <<>>
    ELSE LET p == CHOOSE p \in S : \A q \in S \ {p} : PointBefore(p, q)
         IN  <<p>> \o RowMajor(S \ {p})

RemoveAt(seq, i) == SubSeq(seq, 1, i - 1) \o SubSeq(seq, i + 1, Len(seq))

\* image.py:159, 236: sort by confidence, reverse=True. The sort is stable:
\* matches of equal confidence keep their order.
RECURSIVE SortedByConfidence(_)
SortedByConfidence(matches) ==
    IF matches = <<>> THEN <<>>
    ELSE LET i == CHOOSE i \in 1..Len(matches) :
                    /\ \A j \in 1..Len(matches) :
                          matches[j].confidence <= matches[i].confidence
                    /\ \A j \in 1..(i - 1) :
                          matches[j].confidence < matches[i].confidence
         IN  <<matches[i]>> \o SortedByConfidence(RemoveAt(matches, i))

\* The suppression step without the overlap test.
NmsKeepsAll(matches, overlap_threshold) == SortedByConfidence(matches)

\* image.py:238-246: the greedy loop of _nms
RECURSIVE NmsLoop(_, _, _)
NmsLoop(matches, keep, overlap_threshold) ==
    IF matches = <<>> THEN keep
    ELSE LET current == Head(matches)
             rest == SelectSeq(Tail(matches),
                        LAMBDA m : RatLess(Iou(current, m), overlap_threshold))
         IN  NmsLoop(rest, Append(keep, current), overlap_threshold)

\* image.py:229-246  ImageMatcher._nms
Nms(matches, overlap_threshold) ==
    IF matches = <<>> THEN <<>>
    ELSE NmsLoop(SortedByConfidence(matches), <<>>, overlap_threshold)

\* matches[:max_results], max_results >= 0
Take(seq, n) == SubSeq(seq, 1, Min(n, Len(seq)))

\* image.py:142: the locations at or above the threshold
Candidates(result, t) == {p \in DOMAIN result : result[p] >= t}

\* image.py:115-161  ImageMatcher.find_all
FindAll(threshold, default, result, w, h, max_results) ==
    LET t == EffectiveThreshold(threshold, default)
        pts == RowMajor(Candidates(result, t))
        matches == [i \in 1..Len(pts) |->
                        MatchResult(pts[i][1], pts[i][2], w, h, result[pts[i]])]
        kept == Nms(matches, OverlapThreshold)
    IN  Take(SortedByConfidence(kept), max_results)

\* The response maps used as inputs: at most MaxCands peaks of a positive
\* level over a flat background of level 0 or below.
ResponseMaps ==
    UNION { { [p \in Positions |-> IF p \in S THEN f[p] ELSE b] :
                f \in [S -> 1..MaxConf], b \in {0 - 1, 0} } :
            S \in {T \in SUBSET Positions : Cardinality(T) <= MaxCands} }

\* ---- find_multiscale

\* image.py:180: the default scales, in quarters
DefaultScales == <<2, 3, 4, 5, 6>>
ScaleSet == {DefaultScales[i] : i \in DOMAIN DefaultScales}

\* image.py:190-191: int(size * scale), the scale in quarters
ScaledSize(size, scale) == (size * scale) \div 4

\* image.py:197: self.find on the resized template with the default metric;
\* resp gives the best confidence of the match response at each scale.
FindAtScale(t, default, resp, w, h, scale) ==
    Find(Some(t), default, "None",
         [min_val |-> resp[scale], max_val |-> resp[scale],
          min_loc |-> <<0, 0>>, max_loc |-> <<0, 0>>],
         ScaledSize(w, scale), ScaledSize(h, scale))

\* image.py:188-200: the loop over the scales
RECURSIVE MultiscaleLoop(_, _, _, _)
MultiscaleLoop(scales, best_match, best_confidence, ctx) ==
    IF scales = <<>> THEN best_match
    ELSE LET scale == Head(scales)
             new_width == ScaledSize(ctx.w, scale)
             new_height == ScaledSize(ctx.h, scale)
         IN  IF new_width < 1 \/ new_height < 1
             THEN MultiscaleLoop(Tail(scales), best_match, best_confidence, ctx)
             ELSE LET match == FindAtScale(ctx.t, ctx.default, ctx.resp,
                                           ctx.w, ctx.h, scale)
                  IN  IF match # None /\ match[1].confidence > best_confidence
                      THEN MultiscaleLoop(Tail(scales), match,
                                          match[1].confidence, ctx)
                      ELSE MultiscaleLoop(Tail(scales), best_match,
                                          best_confidence, ctx)

\* image.py:163-202  ImageMatcher.find_multiscale
FindMultiscale(scales, threshold, default, resp, w, h) ==
    LET list == IF scales = None THEN DefaultScales ELSE scales[1]
        t == EffectiveThreshold(threshold, default)
    IN  MultiscaleLoop(list, None, 0,
                       [t |-> t, default |-> default, resp |-> resp,
                        w |-> w, h |-> h])

\* The scales arguments used as inputs: None, or a list of distinct scales.
ScaleLists ==
    UNION { {s \in [1..n -> ScaleSet] : \A i, j \in 1..n : i # j => s[i] # s[j]} :
            n \in 0..MaxScales }
ScaleArgs == {None} \cup {Some(s) : s \in ScaleLists}

ScalesOf(arg) == IF arg = None THEN DefaultScales ELSE arg[1]

\* ---- state machine. The matcher keeps no state between calls, so a
\* behaviour is the construction followed by one call.

NoCall == [op |-> "none", args |-> <<>>, done |-> FALSE, ret |-> None]

Return(op, args, value) == [op |-> op, args |-> args, done |-> TRUE, ret |-> value]

\* image.py:42-49  ImageMatcher.__init__(threshold)
LocatorInit ==
    /\ l_threshold \in ThresholdLevels
    /\ l_call = NoCall

LocFind ==
    /\ l_call = NoCall
    /\ \E threshold \in ThresholdArgs, method \in Methods, size \in TemplateSizes :
       \E mm \in MinMaxLocs(method) :
          l_call' = Return("find",
                           [threshold |-> threshold, method |-> method,
                            mm |-> mm, w |-> size[1], h |-> size[2]],
                           Find(threshold, l_threshold, method, mm,
                                size[1], size[2]))
    /\ UNCHANGED l_threshold
    /\ UNCHANGED notLocator

LocFindAll ==
    /\ l_call = NoCall
    /\ \E threshold \in ThresholdArgs, size \in TemplateSizes,
          max_results \in {1, MaxCands}, result \in ResponseMaps :
          l_call' = Return("find_all",
                           [threshold |-> threshold, result |-> result,
                            w |-> size[1], h |-> size[2],
                            max_results |-> max_results],
                           FindAll(threshold, l_threshold, result,
                                   size[1], size[2], max_results))
    /\ UNCHANGED l_threshold
    /\ UNCHANGED notLocator

LocFindMultiscale ==
    /\ l_call = NoCall
    /\ \E threshold \in ThresholdArgs, size \in MultiscaleSizes, scales \in ScaleArgs :
       \E resp \in [{ScalesOf(scales)[i] : i \in DOMAIN ScalesOf(scales)}
                       -> ConfLevels] :
          l_call' = Return("find_multiscale",
                           [threshold |-> threshold, scales |-> scales,
                            resp |-> resp, w |-> size[1], h |-> size[2]],
                           FindMultiscale(scales, threshold, l_threshold,
                                          resp, size[1], size[2]))
    /\ UNCHANGED l_threshold
    /\ UNCHANGED notLocator

LocatorNext ==
    \/ LocFind
    \/ LocFindAll
    \/ LocFindMultiscale

(***************************************************************************)
(*                            Polling waits                                *)
(* ImageMatcher.wait_for and Automation.wait_until_gone. The clock counts  *)
(* ticks; a capture takes no tick or one, time.sleep(interval) takes       *)
(* interval ticks or one more. A behaviour is one call. The frame of the   *)
(* k-th capture is k, and find on frame k yields a match at x = k or none; *)
(* the captures from the MaxPolls-th on are counted as the MaxPolls-th.    *)
(***************************************************************************)

Counted(n) == IF n < MaxPolls THEN n + 1 ELSE n

WaitOps == {"wait_for", "wait_until_gone"}

NoWait == [op |-> "none", timeout |-> 0, interval |-> 0]

\* `while time.time() - start_time < timeout` (image.py:284, automation.py:125)
NeverElapsed(now, start, timeout) == FALSE
Elapsed(now, start, timeout) == ~(now - start < timeout)

\* time.sleep(interval) (image.py:289, automation.py:128): at least interval
NoSleep(interval, over) == over
SleepTime(interval, over) == interval + over

\* `if match: return match` (image.py:287-288) and
\* `if not self.find(template, threshold): return True` (automation.py:126-127)
WaitOver(op, match) ==
    IF op = "wait_for" THEN match # None ELSE match = None

\* what the wait returns when the loop ends by its test (image.py:291,
\* automation.py:129) and from inside the loop
TimeoutValue(op) == IF op = "wait_for" THEN None ELSE Some(FALSE)
HitValue(op, match) == IF op = "wait_for" THEN match ELSE Some(TRUE)

\* Observation of the call: the captures and sleeps made, the capture whose
\* find ended the wait (0: none), the clock at the last capture and at the one
\* before it, and the sleeps made between these two.
ZeroWait == [captures |-> 0, sleeps |-> 0, hitAt |-> 0, capAt |-> 0, prevAt |-> 0,
             gap |-> 0, sinceCapture |-> 0]

WaitInit ==
    /\ wt_call = NoWait
    /\ wt_pc = "idle"
    /\ wt_now = 0
    /\ wt_start = 0
    /\ wt_ret = None
    /\ wt_obs = ZeroWait

\* the call, and `start_time = time.time()` (image.py:281-282, automation.py:124)
WaitEnter ==
    /\ wt_pc = "idle"
    /\ wt_call = NoWait
    /\ \E op \in WaitOps, timeout \in (0 - 1)..MaxTimeout, interval \in 0..MaxInterval :
         wt_call' = [op |-> op, timeout |-> timeout, interval |-> interval]
    /\ wt_start' = wt_now
    /\ wt_pc' = "loop"
    /\ UNCHANGED <<wt_now, wt_ret, wt_obs>>
    /\ UNCHANGED notWait

\* the loop test (image.py:284, automation.py:125) and the return after the
\* loop (image.py:291, automation.py:129)
WaitLoop ==
    /\ wt_pc = "loop"
    /\ IF Elapsed(wt_now, wt_start, wt_call.timeout)
       THEN /\ wt_ret' = TimeoutValue(wt_call.op)
            /\ wt_pc' = "done"
       ELSE /\ wt_pc' = "capture"
            /\ UNCHANGED wt_ret
    /\ UNCHANGED <<wt_call, wt_now, wt_start, wt_obs>>
    /\ UNCHANGED notWait

\* `screenshot = screenshot_func()` (image.py:285; automation.py:75 inside find)
WaitCapture ==
    /\ wt_pc = "capture"
    /\ \E d \in {0, 1} : wt_now' = wt_now + d
    /\ wt_obs' = [wt_obs EXCEPT !.captures = Counted(@),
                                !.prevAt = wt_obs.capAt,
                                !.capAt = wt_now,
                                !.gap = wt_obs.sinceCapture,
                                !.sinceCapture = 0]
    /\ wt_pc' = "find"
    /\ UNCHANGED <<wt_call, wt_start, wt_ret>>
    /\ UNCHANGED notWait

\* `match = self.find(screenshot, template, threshold)` and the test of its
\* result (image.py:286-288; automation.py:76, 126-127)
WaitFind ==
    /\ wt_pc = "find"
    /\ \E found \in BOOLEAN :
         LET match == IF found
                      THEN Some(MatchResult(wt_obs.captures, 0, 1, 1, MaxConf))
                      ELSE None
         IN  IF WaitOver(wt_call.op, match)
             THEN /\ wt_ret' = HitValue(wt_call.op, match)
                  /\ wt_obs' = [wt_obs EXCEPT !.hitAt = wt_obs.captures]
                  /\ wt_pc' = "done"
             ELSE /\ wt_pc' = "sleep"
                  /\ UNCHANGED <<wt_ret, wt_obs>>
    /\ UNCHANGED <<wt_call, wt_now, wt_start>>
    /\ UNCHANGED notWait

\* `time.sleep(interval)` (image.py:289, automation.py:128)
WaitSleep ==
    /\ wt_pc = "sleep"
    /\ \E over \in {0, 1} : wt_now' = wt_now + SleepTime(wt_call.interval, over)
    /\ wt_obs' = [wt_obs EXCEPT !.sleeps = Counted(@), !.sinceCapture = @ + 1]
    /\ wt_pc' = "loop"
    /\ UNCHANGED <<wt_call, wt_start, wt_ret>>
    /\ UNCHANGED notWait

WaitNext ==
    \/ WaitEnter
    \/ WaitLoop
    \/ WaitCapture
    \/ WaitFind
    \/ WaitSleep

(***************************************************************************)
(*                             Plan parsers                                *)
(* A plan text is a sequence of tokens and stands for their concatenation. *)
(* Only FENCE holds backticks, only LB and RB hold braces, only NL is      *)
(* whitespace and only TAG starts with "json", so Python's substring       *)
(* searches, splits and strips on the text are the same operations on the  *)
(* token sequence.                                                         *)
(***************************************************************************)
\* the fence marker, three backticks (a TLA+ string cannot hold a backtick)
FENCE == "<fence>"
TAG == "json"
NL == "\n"
LB == "{"
RB == "}"
PROSE == "ok"
\* the members of a wire-format object before its reason
BodyClick == "\"action\":\"click\",\"x\":10,\"y\":20"
BodyDone == "\"action\":\"done\""
BodyFly == "\"action\":\"fly\""
\* the opening of the reason member and the quote that closes it
SO == ",\"reason\":\""
SC == "\""

Bodies == {BodyClick, BodyDone, BodyFly}
\* what may stand inside the reason string
StringTokens == {FENCE, TAG, LB, RB, PROSE}

\* ---- str operations

IsSpace(tok) == tok = NL

RECURSIVE LStrip(_)
LStrip(s) == IF s # <<>> /\ IsSpace(Head(s)) THEN LStrip(Tail(s)) ELSE s

RECURSIVE RStrip(_)
RStrip(s) ==
    IF s # <<>> /\ IsSpace(s[Len(s)]) THEN RStrip(SubSeq(s, 1, Len(s) - 1)) ELSE s

\* str.strip()
Strip(s) == RStrip(LStrip(s))

Occurrences(s, sep) ==
    {i \in 1..(Len(s) - Len(sep) + 1) : SubSeq(s, i, i + Len(sep) - 1) = sep}

\* `sep in s`
Contains(s, sep) == Occurrences(s, sep) # {}

\* str.split(sep): the parts between the occurrences of sep, left to right
RECURSIVE Split(_, _)
Split(s, sep) ==
    IF ~Contains(s, sep) THEN <<s>>
    ELSE LET i == CHOOSE i \in Occurrences(s, sep) :
                    \A k \in Occurrences(s, sep) : i <= k
         IN  <<SubSeq(s, 1, i - 1)>> \o Split(SubSeq(s, i + Len(sep), Len(s)), sep)

\* str.find(tok): the 0-based position of the first tok, -1 when absent
StrFind(s, tok) ==
    IF \E i \in DOMAIN s : s[i] = tok
    THEN (CHOOSE i \in DOMAIN s : s[i] = tok /\ \A k \in 1..(i - 1) : s[k] # tok) - 1
    ELSE 0 - 1

\* str.rfind(tok): the 0-based position of the last tok, -1 when absent
StrRFind(s, tok) ==
    IF \E i \in DOMAIN s : s[i] = tok
    THEN (CHOOSE i \in DOMAIN s :
             s[i] = tok /\ \A k \in (i + 1)..Len(s) : s[k] # tok) - 1
    ELSE 0 - 1

\* s[start:end] for start >= 0 and end >= 0
Slice(s, start, end) == SubSeq(s, start + 1, end)

\* str.startswith(tok)
StartsWith(s, tok) == s # <<>> /\ s[1] = tok

\* ---- json.loads on the token language: surrounding whitespace is ignored;
\* an object is { }, { body } or { body ,"reason":" string " } with optional
\* whitespace between the members; anything else is a JSONDecodeError.

JsonError == [valid |-> FALSE, body |-> "", reason |-> None]
JsonObject(body, reason) == [valid |-> TRUE, body |-> body, reason |-> reason]

JsonMembers(inner) ==
    IF inner = <<>> THEN JsonObject("", None)
    ELSE IF inner[1] \notin Bodies THEN JsonError
    ELSE LET rest == LStrip(Tail(inner))
         IN  IF rest = <<>> THEN JsonObject(inner[1], None)
             ELSE IF /\ Len(rest) >= 2
                     /\ rest[1] = SO
                     /\ rest[Len(rest)] = SC
                     /\ \A k \in 2..(Len(rest) - 1) : rest[k] \in StringTokens
                  THEN JsonObject(inner[1], Some(SubSeq(rest, 2, Len(rest) - 1)))
                  ELSE JsonError

JsonLoads(s) ==
    LET t == Strip(s)
    IN  IF Len(t) >= 2 /\ t[1] = LB /\ t[Len(t)] = RB
        THEN JsonMembers(Strip(SubSeq(t, 2, Len(t) - 1)))
        ELSE JsonError

\* action.get("action", "")
ActionField(action) ==
    CASE action.body = BodyClick -> "click"
      [] action.body = BodyDone -> "done"
      [] action.body = BodyFly -> "fly"
      [] OTHER -> ""

\* ---- outcomes of a parser call

Outcome(kind, action, done, prim) ==
    [kind |-> kind, action |-> action, done |-> done, prim |-> prim]

\* the automation primitive each action type invokes (web.py:105-122, run.py:112-138)
Primitive(act) ==
    CASE act = "click" -> "click"
      [] act = "type" -> "write"
      [] act = "hotkey" -> "hotkey"
      [] act = "scroll" -> "scroll"
      [] act = "wait" -> "sleep"
      [] OTHER -> "none"

\* ---- web.py execute_action

\* The fence content taken from the wrong side of the first marker.
WebFenceBefore(parts) == parts[1]

\* web.py:91: parts[1] if len(parts) > 1 else parts[0]
WebFenceContent(parts) == IF Len(parts) > 1 THEN parts[2] ELSE parts[1]

\* The extraction test without its `end == 0` half.
WebUnparsableStartOnly(start, end) == start = 0 - 1

\* web.py:96
WebUnparsable(start, end) == start = 0 - 1 \/ end = 0

\* web.py:100-123: dispatch on the action field
WebDispatch(action) ==
    LET act == ActionField(action)
    IN  Outcome("executed", action, act = "done", Primitive(act))

\* web.py:86-123
WebExecuteAction(action_json) ==
    LET stripped == Strip(action_json)
        content ==
            IF Contains(stripped, <<FENCE>>)
            THEN LET inner == WebFenceContent(Split(stripped, <<FENCE>>))
                 IN  IF StartsWith(inner, TAG) THEN Tail(inner) ELSE inner
            ELSE stripped
        start == StrFind(content, LB)
        end == StrRFind(content, RB) + 1
    IN  IF WebUnparsable(start, end)
        THEN Outcome("unparsable", JsonError, FALSE, "none")
        ELSE LET action == JsonLoads(Slice(content, start, end))
             IN  IF ~action.valid
                 THEN Outcome("raised", JsonError, FALSE, "none")
                 ELSE WebDispatch(action)

\* ---- run.py AIAutomation.execute_action

\* run.py:91-93: the markdown clean-up
RunFenceContent(content) ==
    LET first == IF ~Contains(content, <<FENCE, TAG>>)
                 THEN Split(content, <<FENCE>>)[2]
                 ELSE Split(content, <<FENCE, TAG>>)[2]
    IN  Split(first, <<FENCE>>)[1]

\* run.py:98
RunUnparsable(start, end) == start = 0 - 1 \/ end = 0

\* run.py:106-141: dispatch on the action field
RunDispatch(action) ==
    LET action_type == ActionField(action)
    IN  Outcome("executed", action, action_type = "done", Primitive(action_type))

\* run.py:84-141
RunExecuteAction(action_json) ==
    LET stripped == Strip(action_json)
        content == IF Contains(stripped, <<FENCE>>)
                   THEN RunFenceContent(stripped)
                   ELSE stripped
        start == StrFind(content, LB)
        end == StrRFind(content, RB) + 1
    IN  IF RunUnparsable(start, end)
        THEN Outcome("unparsable", JsonError, FALSE, "none")
        ELSE LET action == JsonLoads(Slice(content, start, end))
             IN  IF ~action.valid
                 THEN Outcome("malformed", JsonError, FALSE, "none")
                 ELSE RunDispatch(action)

\* ---- vision.py VisionAnalyzer.plan_action, the text being response.content

\* vision.py:257-271
VisionPlanAction(text) ==
    LET content ==
            IF Contains(text, <<FENCE, TAG>>)
            THEN Split(Split(text, <<FENCE, TAG>>)[2], <<FENCE>>)[1]
            ELSE IF Contains(text, <<FENCE>>)
                 THEN Split(Split(text, <<FENCE>>)[2], <<FENCE>>)[1]
                 ELSE text
        plan == JsonLoads(Strip(content))
    IN  IF plan.valid
        THEN Outcome("plan", plan, FALSE, "none")
        ELSE Outcome("error_plan", JsonError, FALSE, "none")

\* ---- the plan texts used as inputs

ReasonTexts == UNION { [1..n -> StringTokens] : n \in 0..MaxReason }

\* the wire-format objects J
Objects ==
    { <<LB, b, RB>> : b \in Bodies }
    \cup { <<LB, b, SO>> \o r \o <<SC, RB>> : b \in Bodies, r \in ReasonTexts }

\* J in a fenced block with a language tag
Fenced(j) == <<FENCE, TAG, NL>> \o j \o <<NL, FENCE>>

\* prose without braces
ProseTokens == {PROSE, NL, FENCE}
ProseTexts == UNION { [1..n -> ProseTokens] : n \in 0..MaxProse }

\* arbitrary short texts
FreeTokens == {FENCE, TAG, NL, PROSE, LB, RB}
FreeTexts == UNION { [1..n -> FreeTokens] : n \in 0..MaxText }

PlanInput(shape, j, pre, post, text) ==
    [shape |-> shape, j |-> j, pre |-> pre, post |-> post, text |-> text]

Shapes == {"plain", "fenced", "prose", "free"}

PlanInputs(shape) ==
    CASE shape = "plain" ->
           { PlanInput("plain", j, <<>>, <<>>, j) : j \in Objects }
      [] shape = "fenced" ->
           { PlanInput("fenced", j, <<>>, <<>>, Fenced(j)) : j \in Objects }
      [] shape = "prose" ->
           { PlanInput("prose", j, pre, post, pre \o j \o post) :
               j \in Objects, pre \in ProseTexts, post \in ProseTexts }
      [] shape = "free" ->
           { PlanInput("free", <<>>, <<>>, <<>>, text) : text \in FreeTexts }

\* ---- state machine. The parsers keep no state between calls, so a behaviour
\* is one call.

NoParse == [parser |-> "none", in |-> PlanInput("none", <<>>, <<>>, <<>>, <<>>),
            out |-> Outcome("none", JsonError, FALSE, "none")]

ParserInit == p_call = NoParse

ParseWeb ==
    /\ p_call = NoParse
    /\ \E shape \in Shapes : \E in \in PlanInputs(shape) :
          p_call' = [parser |-> "web", in |-> in, out |-> WebExecuteAction(in.text)]
    /\ UNCHANGED notParser

ParseRun ==
    /\ p_call = NoParse
    /\ \E shape \in Shapes : \E in \in PlanInputs(shape) :
          p_call' = [parser |-> "run", in |-> in, out |-> RunExecuteAction(in.text)]
    /\ UNCHANGED notParser

ParseVision ==
    /\ p_call = NoParse
    /\ \E shape \in Shapes : \E in \in PlanInputs(shape) :
          p_call' = [parser |-> "vision", in |-> in, out |-> VisionPlanAction(in.text)]
    /\ UNCHANGED notParser

ParserNext ==
    \/ ParseWeb
    \/ ParseRun
    \/ ParseVision

(***************************************************************************)
(*                      Web host: the task worker                          *)
(* Every `with task_lock:` block is one action, and so is every read of    *)
(* task_state outside the lock. The body of the worker's try block up to   *)
(* the return of execute_action touches no shared state and is one action. *)
(* The global name task_state is looked up at each use, so every thread    *)
(* works on the dict the name is bound to at that moment.                  *)
(***************************************************************************)

Workers == 1..MaxWorkers

WNone == 0 - 1

\* web.py:36-43 and the dict of web.py:130
FreshState(running) ==
    [running |-> running, steps |-> <<>>, current_step |-> 0, done |-> FALSE,
     error |-> "none"]

\* web.py:142-150 and web.py:164: an entry of task_state["steps"]
StepInfo(step, result, done) == [step |-> step + 1, result |-> result, done |-> done]

\* the answers of the planner the worker is run on
WebPlanTexts ==
    { <<LB, BodyClick, RB>>, <<LB, BodyDone, RB>>, <<LB, BodyFly, RB>>,
      <<PROSE>>, <<LB, PROSE, RB>> }

\* what the try block holds once execute_action has returned or something raised
NoPend == [kind |-> "none", done |-> FALSE, msg |-> "none"]
Returned(done, msg) == [kind |-> "returned", done |-> done, msg |-> msg]
Raised(msg) == [kind |-> "raised", done |-> FALSE, msg |-> msg]

\* web.py:97-123: the msg execute_action returns
WebMessage(out) ==
    CASE out.kind = "unparsable" -> "unparsable"
      [] out.done -> "done"
      [] out.prim # "none" -> out.prim
      [] OTHER -> "unknown"

\* web.py:245-259: the answer of /api/task/status, the steps without their
\* screenshots
Snapshot(state) ==
    [running |-> state.running, current_step |-> state.current_step,
     done |-> state.done, error |-> state.error, steps |-> state.steps]

\* no status has been asked for since the host last changed
NoSnapshot == <<>>

\* Observation: whether a stop was requested, the step at which an automation
\* primitive raised, and for a worker that was inside its loop, and the only
\* live one with no start request in progress, when a stop request was first
\* processed, the first step it may no
\* longer execute (the one after the step in progress, or the next one when
\* none was in progress).
ZeroWebObs == [stopped |-> FALSE, execRaisedAt |-> [w \in Workers |-> WNone],
               stopBound |-> [w \in Workers |-> WNone]]

\* The worker is inside a step of its loop (web.py:136-167).
InStep(w) == w_pc[w] \in {"try", "record", "done", "except"}

WebInit ==
    /\ task_state = FreshState(FALSE)
    /\ w_pc = [w \in Workers |-> "none"]
    /\ w_step = [w \in Workers |-> 0]
    /\ w_pend = [w \in Workers |-> NoPend]
    /\ w_starts = 0
    /\ w_resp = "none"
    /\ w_obs = ZeroWebObs
    /\ w_snap = NoSnapshot

\* The worker threads not yet started.
FreeWorkers == {w \in Workers : w_pc[w] = "none"}

\* web.py:227-231 api_task_start: the read of task_state["running"], made
\* without the lock, and the checks of the request that follow it and touch no
\* shared state. A busy host and an empty task description are answered here;
\* otherwise the handler goes on to start a thread, and other requests and the
\* workers run before it does. No more handlers are at that point than worker
\* threads remain to be started.
WebStartCheck ==
    /\ w_snap' = NoSnapshot
    /\ \E task_desc \in {"", "t"} :
         IF task_state.running
         THEN /\ w_resp' = "busy"
              /\ UNCHANGED w_starts
         ELSE IF task_desc = ""
         THEN /\ w_resp' = "empty"
              /\ UNCHANGED w_starts
         ELSE /\ w_starts < Cardinality(FreeWorkers)
              /\ w_starts' = w_starts + 1
              /\ UNCHANGED w_resp
    /\ UNCHANGED <<task_state, w_pc, w_step, w_pend, w_obs>>
    /\ UNCHANGED notWeb

\* web.py:232-235 api_task_start, after the checks: the worker thread is
\* started whatever the running flag has become.
WebStart ==
    /\ w_snap' = NoSnapshot
    /\ w_starts > 0
    /\ w_starts' = w_starts - 1
    /\ \E w \in FreeWorkers :
         /\ \A v \in Workers : v < w => w_pc[v] # "none"
         /\ w_pc' = [w_pc EXCEPT ![w] = "spawned"]
    /\ w_resp' = "ok"
    /\ UNCHANGED <<task_state, w_step, w_pend, w_obs>>
    /\ UNCHANGED notWeb

\* web.py:129-132: the worker's first lock block
WebRunEnter(w) ==
    /\ w_snap' = NoSnapshot
    /\ w_pc[w] = "spawned"
    /\ task_state' = FreshState(TRUE)
    /\ w_pc' = [w_pc EXCEPT ![w] = "loop"]
    /\ w_step' = [w_step EXCEPT ![w] = 0]
    /\ UNCHANGED <<w_pend, w_resp, w_obs>>
    /\ UNCHANGED w_starts
    /\ UNCHANGED notWeb

\* web.py:133-135: the loop head and the unlocked read of the running flag
WebLoop(w) ==
    /\ w_snap' = NoSnapshot
    /\ w_pc[w] = "loop"
    /\ w_pc' = [w_pc EXCEPT ![w] =
                  IF w_step[w] < WebSteps /\ task_state.running THEN "try" ELSE "final"]
    /\ UNCHANGED <<task_state, w_step, w_pend, w_resp, w_obs>>
    /\ UNCHANGED w_starts
    /\ UNCHANGED notWeb

\* web.py:137-140: capture, describe, plan, execute
WebTry(w) ==
    /\ w_snap' = NoSnapshot
    /\ w_pc[w] = "try"
    /\ \/ \* the capture, the vision call or the planner call raises
          /\ w_pend' = [w_pend EXCEPT ![w] = Raised("provider")]
          /\ w_pc' = [w_pc EXCEPT ![w] = "except"]
          /\ UNCHANGED w_obs
       \/ \E action_json \in WebPlanTexts, fails \in BOOLEAN :
            LET out == WebExecuteAction(action_json)
            IN  /\ fails => out.prim # "none"
                /\ IF out.kind = "raised" \/ fails
                   THEN /\ w_pend' = [w_pend EXCEPT ![w] =
                                        Raised(IF fails THEN "primitive" ELSE "json")]
                        /\ w_pc' = [w_pc EXCEPT ![w] = "except"]
                        /\ w_obs' = [w_obs EXCEPT !.execRaisedAt[w] =
                                                 IF fails THEN w_step[w] ELSE @]
                   ELSE /\ w_pend' = [w_pend EXCEPT ![w] =
                                        Returned(out.done, WebMessage(out))]
                        /\ w_pc' = [w_pc EXCEPT ![w] = "record"]
                        /\ UNCHANGED w_obs
    /\ UNCHANGED <<task_state, w_step, w_resp>>
    /\ UNCHANGED w_starts
    /\ UNCHANGED notWeb

\* web.py:151-161: the step is logged; a step that is not done sleeps and loops
WebRecord(w) ==
    /\ w_snap' = NoSnapshot
    /\ w_pc[w] = "record"
    /\ task_state' = [task_state EXCEPT
          !.steps = Append(@, StepInfo(w_step[w], w_pend[w].msg, w_pend[w].done)),
          !.current_step = w_step[w] + 1]
    /\ IF w_pend[w].done
       THEN /\ w_pc' = [w_pc EXCEPT ![w] = "done"]
            /\ UNCHANGED <<w_step, w_pend>>
       ELSE /\ w_pc' = [w_pc EXCEPT ![w] = "loop"]
            /\ w_step' = [w_step EXCEPT ![w] = @ + 1]
            /\ w_pend' = [w_pend EXCEPT ![w] = NoPend]
    /\ UNCHANGED <<w_resp, w_obs>>
    /\ UNCHANGED w_starts
    /\ UNCHANGED notWeb

\* web.py:156-160
WebDone(w) ==
    /\ w_snap' = NoSnapshot
    /\ w_pc[w] = "done"
    /\ task_state' = [task_state EXCEPT !.done = TRUE, !.running = FALSE]
    /\ w_pc' = [w_pc EXCEPT ![w] = "final"]
    /\ UNCHANGED <<w_step, w_pend, w_resp, w_obs>>
    /\ UNCHANGED w_starts
    /\ UNCHANGED notWeb

\* web.py:162-167
WebExcept(w) ==
    /\ w_snap' = NoSnapshot
    /\ w_pc[w] = "except"
    /\ task_state' = [task_state EXCEPT
          !.steps = Append(@, StepInfo(w_step[w], "error", FALSE)),
          !.error = w_pend[w].msg,
          !.running = FALSE]
    /\ w_pc' = [w_pc EXCEPT ![w] = "final"]
    /\ UNCHANGED <<w_step, w_pend, w_resp, w_obs>>
    /\ UNCHANGED w_starts
    /\ UNCHANGED notWeb

\* web.py:169-170: the last lock block; the thread ends
WebFinal(w) ==
    /\ w_snap' = NoSnapshot
    /\ w_pc[w] = "final"
    /\ task_state' = [task_state EXCEPT !.running = FALSE]
    /\ w_pc' = [w_pc EXCEPT ![w] = "ended"]
    /\ UNCHANGED <<w_step, w_pend, w_resp, w_obs>>
    /\ UNCHANGED w_starts
    /\ UNCHANGED notWeb

\* web.py:238-242 api_task_stop
WebStop ==
    /\ w_snap' = NoSnapshot
    /\ task_state' = [task_state EXCEPT !.running = FALSE]
    /\ w_obs' = [w_obs EXCEPT
          !.stopped = TRUE,
          !.stopBound = [w \in Workers |->
              IF @[w] # WNone THEN @[w]
              ELSE IF \/ \E v \in Workers \ {w} : w_pc[v] \notin {"none", "ended"}
                      \/ w_starts > 0
              THEN WNone
              ELSE IF InStep(w) THEN w_step[w] + 1
              ELSE IF w_pc[w] = "loop" THEN w_step[w]
              ELSE WNone]]
    /\ UNCHANGED <<w_pc, w_step, w_pend, w_resp>>
    /\ UNCHANGED w_starts
    /\ UNCHANGED notWeb

\* web.py:245-259 api_task_status: one lock block
WebStatus ==
    /\ w_snap' = <<Snapshot(task_state)>>
    /\ UNCHANGED <<task_state, w_pc, w_step, w_pend, w_resp, w_obs>>
    /\ UNCHANGED w_starts
    /\ UNCHANGED notWeb

WebNext ==
    \/ WebStatus
    \/ WebStartCheck
    \/ WebStart
    \/ WebStop
    \/ \E w \in Workers :
         \/ WebRunEnter(w)
         \/ WebLoop(w)
         \/ WebTry(w)
         \/ WebRecord(w)
         \/ WebDone(w)
         \/ WebExcept(w)
         \/ WebFinal(w)

(***************************************************************************)
(*                          Action executors                               *)
(* The scroll and wait branches of AIAgent._execute_action and of the      *)
(* execute_action of web.py and run.py, with the optional field of the     *)
(* action as the decision source wrote it: absent, null, a string, a       *)
(* number, NaN, a list or an object. The calls made on the automation      *)
(* object and on time.sleep are logged.                                    *)
(***************************************************************************)

\* the values of a field of the decoded plan
JAbsent == [kind |-> "absent", s |-> "", n |-> 0]
JNull == [kind |-> "null", s |-> "", n |-> 0]
JStr(s) == [kind |-> "str", s |-> s, n |-> 0]
JNum(n) == [kind |-> "num", s |-> "", n |-> n]
\* JNum holds the numbers time.sleep converts and the clock accepts, true and
\* false being the numbers 1 and 0.
\* a number beyond the range time.sleep converts, which ends a little beyond
\* 9.2e9 seconds in either direction (1e10, -1e10, 10**20, Infinity, -Infinity)
JHuge == [kind |-> "huge", s |-> "", n |-> 0]
\* a positive number time.sleep converts and the clock of the platform rejects,
\* the deadline lying beyond what it can hold (9223372036)
JLimit == [kind |-> "limit", s |-> "", n |-> 0]
JNaN == [kind |-> "nan", s |-> "", n |-> 0]
\* a list or an object that is not empty
JList == [kind |-> "list", s |-> "", n |-> 0]
\* the empty list, the empty object
JEmpty == [kind |-> "empty", s |-> "", n |-> 0]

Directions == {JAbsent, JNull, JStr(""), JStr("up"), JStr("down"), JStr("UP"),
               JStr("left"), JNum(0)}
Durations == {JAbsent, JNull, JNum(0), JNum(1), JNum(2), JNum(0 - 1),
              JStr(""), JStr("up"), JHuge, JLimit, JNaN, JList, JEmpty}

\* dict.get(key): None for an absent key (agent.py:214-215)
DictGet(v) == IF v = JAbsent THEN JNull ELSE v

\* dict.get(key, default) (web.py:117, 121; run.py:128, 136)
DictGetDefault(v, default) == IF v = JAbsent THEN default ELSE v

\* Python's truth value of a field value
Falsy(v) == v \in {JNull, JStr(""), JNum(0), JEmpty}

\* `v or default` (agent.py:236, 248)
OrDefault(v, default) == IF Falsy(v) THEN default ELSE v

\* the fixed magnitude of a scroll (agent.py:238, 240; web.py:118; run.py:130, 132)
ScrollClicks == 5

\* time.sleep(arg) (agent.py:249, web.py:122, run.py:137): the exception it
\* raises: TypeError for an argument that is no number, OverflowError for a
\* number beyond the range it converts, of either sign, ValueError for a
\* negative number within the range and for NaN, OSError for a number it
\* converts and the clock rejects
SleepException(arg) ==
    CASE arg.kind = "num" -> IF arg.n < 0 THEN "ValueError" ELSE "none"
      [] arg.kind = "nan" -> "ValueError"
      [] arg.kind = "huge" -> "OverflowError"
      [] arg.kind = "limit" -> "OSError"
      [] OTHER -> "TypeError"

\* a call on the automation object or on time.sleep
Call(prim, arg) ==
    [prim |-> prim, arg |-> arg,
     raised |-> prim = "sleep" /\ SleepException(arg) # "none"]

\* `if direction == "up"` ... else (agent.py:237-240, web.py:118, run.py:129-132)
ScrollAlwaysDown(direction) == "scroll_down"
ScrollPrimitive(direction) ==
    IF direction = JStr("up") THEN "scroll_up" ELSE "scroll_down"

\* agent.py:235-240, with the direction _parse_action stored (agent.py:214)
AgentScroll(field) ==
    LET direction == OrDefault(DictGet(field), JStr("down"))
    IN  Call(ScrollPrimitive(direction), JNum(ScrollClicks))

\* agent.py:247-249, with the duration _parse_action stored (agent.py:215)
AgentWait(field) ==
    LET duration == OrDefault(DictGet(field), JNum(1))
    IN  Call("sleep", duration)

\* web.py:116-119 and run.py:127-133
HostScroll(field) ==
    LET d == DictGetDefault(field, JStr("down"))
    IN  Call(ScrollPrimitive(d), JNum(ScrollClicks))

\* web.py:120-122 and run.py:135-138
HostWait(field) == Call("sleep", DictGetDefault(field, JNum(1)))

Executors == {"agent", "web", "run"}

Executed(executor, act, field, call) ==
    [executor |-> executor, act |-> act, field |-> field, call |-> call]

ExecInit == x_log = <<>>

\* AIAgent._execute_action on a scroll or a wait action
ExecAgent ==
    /\ Len(x_log) < MaxActs
    /\ \/ \E f \in Directions :
             x_log' = Append(x_log, Executed("agent", "scroll", f, AgentScroll(f)))
       \/ \E f \in Durations :
             x_log' = Append(x_log, Executed("agent", "wait", f, AgentWait(f)))
    /\ UNCHANGED notExec

\* execute_action of web.py on a scroll or a wait action
ExecWeb ==
    /\ Len(x_log) < MaxActs
    /\ \/ \E f \in Directions :
             x_log' = Append(x_log, Executed("web", "scroll", f, HostScroll(f)))
       \/ \E f \in Durations :
             x_log' = Append(x_log, Executed("web", "wait", f, HostWait(f)))
    /\ UNCHANGED notExec

\* AIAutomation.execute_action of run.py on a scroll or a wait action
ExecRun ==
    /\ Len(x_log) < MaxActs
    /\ \/ \E f \in Directions :
             x_log' = Append(x_log, Executed("run", "scroll", f, HostScroll(f)))
       \/ \E f \in Durations :
             x_log' = Append(x_log, Executed("run", "wait", f, HostWait(f)))
    /\ UNCHANGED notExec

ExecNext ==
    \/ ExecAgent
    \/ ExecWeb
    \/ ExecRun

(***************************************************************************)
(*                    AIAgent: auxiliary operations                        *)
(* click, find_and_click and type_at. A behaviour is one call. The clock   *)
(* counts ticks of half a second; a poll (screenshot, decision source)     *)
(* takes no tick or one, time.sleep(0.5) one tick or two. The decision     *)
(* source answers each poll with an element, with no element, with a text  *)
(* find_element cannot use, or with one on which find_element raises.      *)
(***************************************************************************)

AuxOps == {"click", "find_and_click", "type_at"}

NoAux == [op |-> "none", timeout |-> 0]

\* The answers of the decision source to FIND_ELEMENT_PROMPT, by what
\* find_element (vision.py:214-238) makes of the text:
\*   "deep"              a text nested deeper than the interpreter can follow,
\*                       whatever it holds: json.loads raises RecursionError
\*   "malformed"         a text json.loads rejects with JSONDecodeError (it is
\*                       not JSON) or with ValueError (an integer literal of
\*                       more than 4300 digits), or an element one of whose
\*                       coordinates int() rejects with ValueError or
\*                       TypeError (a word, null, a list, NaN)
\* and, of the texts json.loads decodes:
\*   "not_object"        a value that is no object (a list, a string, a
\*                       number, null)
\*   "not_found"         an object whose "found" is absent or false
\*   "found_no_element"  an object with a true "found" and no "element"
\*   "bad_element"       a true "found" and an "element" that is no object
\*                       (null, a list, a string)
\*   "infinite"          an element one of whose coordinates is Infinity or
\*                       -Infinity
\*   "found"             an object with a true "found" and an "element" that
\*                       is an object whose coordinates int() converts
\*                       (numbers, numeric strings; 0 when absent)
Elements == [x : 0..1, y : {0}, width : {0, 3}, height : {1}]
RaisingAnswers == {"deep", "not_object", "bad_element", "infinite"}
Answers ==
    [kind : {"not_found", "found_no_element", "malformed"} \cup RaisingAnswers,
     element : {<<>>}]
    \cup [kind : {"found"}, element : Elements]

\* UIElement.center (vision.py:27-29)
Center(elem) == <<elem.x + elem.width \div 2, elem.y + elem.height \div 2>>

\* find_element catches json.JSONDecodeError, ValueError and TypeError only
\* (vision.py:235): the RecursionError of json.loads on a text nested too
\* deep (vision.py:221), the AttributeError of `data.get` on JSON that is no
\* object (vision.py:223) and of `elem.get` on an element that is no object
\* (vision.py:226), and the OverflowError of int() on Infinity (vision.py:229),
\* leave it, and with it get_click_position and AIAgent.click, which catch
\* nothing.
FindElementRaises(answer) == answer.kind \in RaisingAnswers
FindElementError(answer) ==
    CASE answer.kind = "deep" -> "RecursionError"
      [] answer.kind = "infinite" -> "OverflowError"
      [] OTHER -> "AttributeError"

\* the outcome of a call that an exception of class cls leaves
Raise(cls) == <<"raise", cls>>
IsRaise(outcome) == Len(outcome) = 2

\* find_element (vision.py:208-238): an element only for an answer that is
\* valid JSON with a true "found" and an "element"
FindElement(answer) ==
    IF FindElementRaises(answer) THEN Raise(FindElementError(answer))
    ELSE IF answer.kind = "found" THEN Some(answer.element)
    ELSE None

\* get_click_position (vision.py:301-304)
GetClickPosition(answer) ==
    LET element == FindElement(answer)
    IN  IF IsRaise(element) THEN element
        ELSE IF element # None THEN Some(Center(element[1]))
        ELSE None

\* `if position:` (agent.py:264): a coordinate pair is true, None is not
PositionFound(position) == position # None

\* AIAgent.click (agent.py:261-267): the calls it makes on the automation
\* object and the value it returns, or the exception that leaves it, for an
\* answer of the decision source
Click(answer) ==
    LET position == GetClickPosition(answer)
    IN  IF IsRaise(position)
        THEN [calls |-> <<>>, ret |-> FALSE, exc |-> position[2]]
        ELSE IF PositionFound(position)
        THEN [calls |-> << <<"click", position[1]>> >>, ret |-> TRUE, exc |-> "none"]
        ELSE [calls |-> <<>>, ret |-> FALSE, exc |-> "none"]

\* `if self.click(target):` of type_at (agent.py:294)
TypeAlways(clicked) == TRUE
TypeAfterClick(clicked) == clicked

\* Observation of the call: the polls made (calls of self.click), the poll
\* that was the first to resolve the target (0: none has), the position the
\* last poll resolved, the exception that left the call.
ZeroAux == [polls |-> 0, firstHit |-> 0, position |-> None, exc |-> "none"]

AuxInit ==
    /\ u_call = NoAux
    /\ u_pc = "idle"
    /\ u_now = 0
    /\ u_start = 0
    /\ u_ret = None
    /\ u_log = <<>>
    /\ u_obs = ZeroAux

\* the call; for find_and_click `start_time = time.time()` (agent.py:277)
AuxEnter ==
    /\ u_pc = "idle"
    /\ u_call = NoAux
    /\ \E op \in AuxOps, timeout \in (0 - 1)..MaxAuxTimeout :
         /\ (op # "find_and_click") => timeout = 0
         /\ u_call' = [op |-> op, timeout |-> timeout]
         /\ u_pc' = IF op = "find_and_click" THEN "loop" ELSE "click"
    /\ u_start' = u_now
    /\ UNCHANGED <<u_now, u_ret, u_log, u_obs>>
    /\ UNCHANGED notAux

\* find_and_click: the loop test and `return False` (agent.py:279, 284)
AuxLoop ==
    /\ u_pc = "loop"
    /\ IF Elapsed(u_now, u_start, u_call.timeout)
       THEN /\ u_ret' = Some(FALSE)
            /\ u_pc' = "done"
       ELSE /\ u_pc' = "click"
            /\ UNCHANGED u_ret
    /\ UNCHANGED <<u_call, u_now, u_start, u_log, u_obs>>
    /\ UNCHANGED notAux

\* self.click(target) (agent.py:261-267) and what its caller does with the
\* value: click returns it, find_and_click returns True or sleeps
\* (agent.py:280-282), type_at goes on to type or returns False (294-298).
\* An exception of find_element leaves click and its caller: nothing is
\* clicked and nothing is returned.
AuxClick ==
    /\ u_pc = "click"
    /\ \E answer \in Answers, d \in {0, 1} :
         LET r == Click(answer) IN
         IF r.exc # "none"
         THEN /\ u_now' = u_now + d
              /\ u_obs' = [u_obs EXCEPT !.polls = Counted(@),
                                        !.position = None,
                                        !.exc = r.exc]
              /\ u_pc' = "raised"
              /\ UNCHANGED <<u_log, u_ret>>
         ELSE
         /\ u_now' = u_now + d
         /\ u_log' = u_log \o r.calls
         /\ u_obs' = [u_obs EXCEPT
                        !.polls = Counted(@),
                        !.firstHit = IF @ = 0 /\ GetClickPosition(answer) # None
                                     THEN Counted(u_obs.polls) ELSE @,
                        !.position = GetClickPosition(answer)]
         /\ CASE u_call.op = "click" ->
                   u_ret' = Some(r.ret) /\ u_pc' = "done"
              [] u_call.op = "find_and_click" ->
                   IF r.ret
                   THEN u_ret' = Some(TRUE) /\ u_pc' = "done"
                   ELSE u_pc' = "sleep" /\ UNCHANGED u_ret
              [] u_call.op = "type_at" ->
                   IF TypeAfterClick(r.ret)
                   THEN u_pc' = "write" /\ UNCHANGED u_ret
                   ELSE u_ret' = Some(FALSE) /\ u_pc' = "done"
    /\ UNCHANGED <<u_call, u_start>>
    /\ UNCHANGED notAux

\* find_and_click: time.sleep(0.5) (agent.py:282)
AuxSleep ==
    /\ u_pc = "sleep"
    /\ \E over \in {0, 1} : u_now' = u_now + SleepTime(1, over)
    /\ u_pc' = "loop"
    /\ UNCHANGED <<u_call, u_start, u_ret, u_log, u_obs>>
    /\ UNCHANGED notAux

\* type_at: time.sleep(0.2), self.automation.write(text), return True
\* (agent.py:295-297)
AuxWrite ==
    /\ u_pc = "write"
    /\ u_log' = Append(u_log, <<"write", "text">>)
    /\ u_ret' = Some(TRUE)
    /\ u_pc' = "done"
    /\ UNCHANGED <<u_call, u_now, u_start, u_obs>>
    /\ UNCHANGED notAux

AuxNext ==
    \/ AuxEnter
    \/ AuxLoop
    \/ AuxClick
    \/ AuxSleep
    \/ AuxWrite

(***************************************************************************)
(*                           Specifications                                *)
(***************************************************************************)

\* A component that is not in use: its object is as constructed and none of its
\* operations is in progress, so that no call of it is described and nothing
\* is observed of it.
Unused == <<>>

SchedIdle ==
    /\ tasks = <<>>
    /\ results = <<>>
    /\ s_running = FALSE
    /\ s_cancelled = FALSE
    /\ s_pc = "idle"
    /\ s_stop = FALSE
    /\ s_idx = 0
    /\ s_attempt = 0
    /\ s_last_error = NoError
    /\ s_ret = NoResult
    /\ s_ended = "none"
    /\ s_calls = Unused
    /\ s_touched = {}
    /\ s_obs = Unused
    /\ s_summary = NoSummary

AgentIdle ==
    /\ a_max_steps = 0
    /\ a_running = FALSE
    /\ a_cancelled = FALSE
    /\ a_pc = "idle"
    /\ a_step = 0
    /\ a_plan = NoPlan
    /\ a_steps = <<>>
    /\ a_success = FALSE
    /\ a_final = ""
    /\ a_ended = "none"
    /\ a_obs = Unused

LocatorIdle ==
    /\ l_threshold = MaxConf
    /\ l_call = Unused

ParserIdle == p_call = Unused

WebIdle ==
    /\ task_state = FreshState(FALSE)
    /\ w_pc = [w \in Workers |-> "none"]
    /\ w_step = [w \in Workers |-> 0]
    /\ w_pend = [w \in Workers |-> NoPend]
    /\ w_starts = 0
    /\ w_resp = "none"
    /\ w_obs = Unused
    /\ w_snap = NoSnapshot

WaitIdle ==
    /\ wt_call = Unused
    /\ wt_pc = "idle"
    /\ wt_now = 0
    /\ wt_start = 0
    /\ wt_ret = None
    /\ wt_obs = Unused

ExecIdle == x_log = <<>>

AuxIdle ==
    /\ u_call = Unused
    /\ u_pc = "idle"
    /\ u_now = 0
    /\ u_start = 0
    /\ u_ret = None
    /\ u_log = <<>>
    /\ u_obs = Unused

InitSched == SchedInit /\ AgentIdle /\ LocatorIdle /\ ParserIdle /\ WebIdle /\ WaitIdle /\ ExecIdle /\ AuxIdle
SpecSched == InitSched /\ [][SchedNext]_vars

InitAgent == AgentInit /\ SchedIdle /\ LocatorIdle /\ ParserIdle /\ WebIdle /\ WaitIdle /\ ExecIdle /\ AuxIdle
SpecAgent == InitAgent /\ [][AgentNext]_vars

InitLocator == LocatorInit /\ SchedIdle /\ AgentIdle /\ ParserIdle /\ WebIdle /\ WaitIdle /\ ExecIdle /\ AuxIdle
SpecLocator == InitLocator /\ [][LocatorNext]_vars

InitParser == ParserInit /\ SchedIdle /\ AgentIdle /\ LocatorIdle /\ WebIdle /\ WaitIdle /\ ExecIdle /\ AuxIdle
SpecParser == InitParser /\ [][ParserNext]_vars

InitWeb == WebInit /\ SchedIdle /\ AgentIdle /\ LocatorIdle /\ ParserIdle /\ WaitIdle /\ ExecIdle /\ AuxIdle
SpecWeb == InitWeb /\ [][WebNext]_vars

InitWait == WaitInit /\ SchedIdle /\ AgentIdle /\ LocatorIdle /\ ParserIdle /\ WebIdle /\ ExecIdle /\ AuxIdle
SpecWait == InitWait /\ [][WaitNext]_vars

InitExec == ExecInit /\ SchedIdle /\ AgentIdle /\ LocatorIdle /\ ParserIdle /\ WebIdle /\ WaitIdle /\ AuxIdle
SpecExec == InitExec /\ [][ExecNext]_vars

InitAux == AuxInit /\ SchedIdle /\ AgentIdle /\ LocatorIdle /\ ParserIdle /\ WebIdle /\ WaitIdle /\ ExecIdle
SpecAux == InitAux /\ [][AuxNext]_vars

\* The thread inside a wait keeps running, and time advances: of the captures
\* of a wait that goes on for ever, some take a tick of the clock.
SpecWaitLive ==
    /\ InitWait /\ [][WaitNext]_vars
    /\ WF_vars(WaitNext)
    /\ SF_vars(WaitCapture /\ wt_now' > wt_now)

(***************************************************************************)
(*                        Properties: TaskScheduler                        *)
(***************************************************************************)

\* The thread is inside _execute_task, past the condition check.
InRetryLoop == s_pc \in {"attempt", "on_success", "on_failure", "append"}

\* C1: executing a task with retry_count = N whose action raises on every
\* invocation invokes the action exactly N+1 times, never more, and then builds
\* and returns a TaskResult with status failed whose error is the exception of
\* the last (the N+1-th) invocation.
C1_RetryExhaustion ==
    (InRetryLoop /\ s_calls.ok = 0) =>
        LET N == tasks[s_idx].retry_count IN
        /\ s_calls.act <= N + 1
        /\ s_pc # "on_success"
        /\ (s_pc = "attempt" /\ s_calls.act > 0) =>
              s_last_error = Exc("action", s_calls.act)
        /\ (s_pc \in {"on_failure", "append"} /\ s_ret.status # "skipped") =>
              /\ s_calls.act = N + 1
              /\ s_ret.status = "failed"
              /\ s_ret.error = Exc("action", N + 1)
              /\ s_ret.task_name = s_idx

\* C1 witness: a task with retry_count >= 1 has failed all its attempts and its
\* failed TaskResult is about to be appended.
C1_Witness ==
    /\ s_pc = "append"
    /\ s_ret.status = "failed"
    /\ tasks[s_idx].retry_count >= 1
    /\ s_calls.act = tasks[s_idx].retry_count + 1
    /\ s_calls.ok = 0

\* C2: under run(stop_on_error=true), once a task has ended failed, no task
\* positioned after it has its condition or action invoked, no TaskResult is
\* appended after the failed one, the later tasks keep status pending, and the
\* run has halted.
C2_StopOnError ==
    (s_stop /\ s_pc # "init") =>
        /\ \A i \in 1..Len(results) :
             results[i].status = "failed" =>
                /\ Len(results) = i
                /\ s_pc = "idle"
                /\ \A j \in (i + 1)..Len(tasks) :
                     j \notin s_touched /\ tasks[j].status = "pending"
        /\ (s_pc = "append" /\ s_ret.status = "failed") =>
             \A j \in (s_idx + 1)..Len(tasks) :
                j \notin s_touched /\ tasks[j].status = "pending"

\* C2 witness: a stop_on_error run has returned with a failed task last in the
\* log and at least one task positioned after it.
C2_Witness ==
    /\ s_stop
    /\ s_pc = "idle"
    /\ s_ended = "returned"
    /\ Len(results) >= 1
    /\ results[Len(results)].status = "failed"
    /\ Len(tasks) > Len(results)

\* The thread is at the head of run()'s loop, or run() has returned.
BetweenTasks == s_pc = "loop" \/ (s_pc = "idle" /\ s_ended = "returned")

\* C11: once the condition of a task has been evaluated and was false, the
\* task ends skipped: the condition was invoked once, the action never (no
\* attempt, no retry sleep), neither on_success nor on_failure is invoked, and
\* the TaskResult built and appended for the task has status skipped.
C11_SkippedWithoutAction ==
    (s_calls.cond_false > 0) =>
        /\ s_calls.cond = 1
        /\ s_calls.act = 0
        /\ s_calls.sleeps = 0
        /\ s_calls.on_success = 0
        /\ s_calls.on_failure = 0
        /\ s_pc \in {"append", "loop", "idle"}
        /\ (s_pc = "append") => s_ret = TaskResult(s_idx, "skipped", 0, NoError)
        /\ (s_pc # "append") =>
              /\ Len(results) >= 1
              /\ results[Len(results)].status = "skipped"

\* C11 witness: a task with both hooks registered whose condition was false has
\* had its skipped TaskResult appended, and the run goes on.
C11_Witness ==
    /\ s_pc = "loop"
    /\ s_calls.cond_false = 1
    /\ Len(results) >= 1
    /\ results[Len(results)].status = "skipped"
    /\ tasks[Len(results)].on_success
    /\ tasks[Len(results)].on_failure

\* C12: once the action of a task has returned normally for the first time, on
\* its i-th invocation, the action is not invoked again (exactly i invocations)
\* and the task ends completed with the return value of that invocation as its
\* result.
C12_FirstSuccessCompletes ==
    LET i == s_calls.first_ok IN
    (i > 0) =>
        /\ s_calls.act = i
        /\ s_pc \in {"on_success", "append", "loop", "idle"}
        /\ (s_pc \in {"on_success", "append"}) =>
              s_ret = TaskResult(s_idx, "completed", i, NoError)
        /\ BetweenTasks =>
              /\ Len(results) >= 1
              /\ results[Len(results)].status = "completed"
              /\ results[Len(results)].result = i

\* C13: a run(stop_on_error=true) that returned without cancel() having been
\* called either has a TaskResult for every task of the list or ends with a
\* failed one: no result but a failed one halts the run, a skipped task does not.
C13_OnlyFailedHalts ==
    (s_stop /\ ~s_cancelled /\ s_pc = "idle" /\ s_ended = "returned") =>
        \/ Len(results) = s_obs.ntasks
        \/ /\ Len(results) >= 1
           /\ results[Len(results)].status = "failed"

\* C14: when cancel() is called while run() is executing task i, no task
\* positioned after i has its condition or action invoked or gets a TaskResult,
\* whatever stop_on_error is, and once the task in progress has finished the log
\* ends with its TaskResult, at position i.
C14_CancelDuringTask ==
    LET i == s_obs.cancelAt IN
    (i > 0) =>
        /\ \A j \in s_touched : j <= i
        /\ Len(results) <= i
        /\ s_cancelled
        /\ (s_pc # "idle") => (s_idx = i \/ (s_pc = "loop" /\ s_idx = i + 1))
        /\ BetweenTasks =>
              /\ Len(results) = i
              /\ results[i].task_name = i

\* C14 witness: cancel() was called while the first of two or more tasks was
\* being executed in a run(stop_on_error=false); the task completed, its
\* TaskResult is the only one, and the run returned.
C14_Witness ==
    /\ s_pc = "idle"
    /\ s_ended = "returned"
    /\ ~s_stop
    /\ s_obs.cancelAt = 1
    /\ s_obs.ntasks >= 2
    /\ Len(results) = 1
    /\ results[1].status = "completed"

\* C21: run() always ends by returning its structured result, whatever the
\* callables of the tasks do: no exception of a condition or of a hook leaves
\* run() uncaught.
C21_NoFailureEscapes == s_ended # "raised"

\* C25: when _execute_task has built the TaskResult of a task with both hooks
\* registered and is about to hand it back to run(), before the next task
\* begins, on_success was invoked exactly once if the task ends completed and
\* not at all otherwise, and on_failure exactly once if it ends failed and not
\* at all otherwise.
C25_HooksOncePerOutcome ==
    (s_pc = "append" /\ tasks[s_idx].on_success /\ tasks[s_idx].on_failure) =>
        /\ s_calls.on_success = IF s_ret.status = "completed" THEN 1 ELSE 0
        /\ s_calls.on_failure = IF s_ret.status = "failed" THEN 1 ELSE 0

\* The positions of the log whose TaskResult has the status.
WithStatus(status) == {i \in 1..Len(results) : results[i].status = status}

\* C26: what get_summary reports after any sequence of add, run, cancel and
\* clear: total_tasks is the length of the log, completed, failed and skipped
\* are the numbers of results with that status and add up to total_tasks (no
\* result is pending, running or cancelled), and success_rate is completed /
\* total_tasks, 0 when the log is empty.
C26_SummaryCounts ==
    (s_summary # NoSummary) =>
        LET sum == s_summary[1] IN
        /\ sum.total_tasks = Len(results)
        /\ sum.completed = Cardinality(WithStatus("completed"))
        /\ sum.failed = Cardinality(WithStatus("failed"))
        /\ sum.skipped = Cardinality(WithStatus("skipped"))
        /\ sum.completed + sum.failed + sum.skipped = sum.total_tasks
        /\ \A i \in 1..Len(results) :
              results[i].status \notin {"pending", "running", "cancelled"}
        /\ IF sum.total_tasks = 0
           THEN sum.success_rate = <<0, 1>>
           ELSE sum.success_rate = <<sum.completed, sum.total_tasks>>

\* C26 witness: the summary of a log with a completed and a skipped result.
C26_Witness ==
    /\ s_summary # NoSummary
    /\ s_summary[1].total_tasks = 2
    /\ s_summary[1].completed = 1
    /\ s_summary[1].skipped = 1

\* The log is ordered: the TaskResult at position i is that of task i, and the
\* run has not got further than the log says.
LogOrdered ==
    /\ \A i \in 1..Len(results) : results[i].task_name = i
    /\ (s_pc \notin {"idle", "init"}) =>
          Len(results) = s_idx - 1
    /\ (s_pc = "idle" /\ s_ended = "returned" /\ ~s_stop /\ s_obs.cancelAt = 0
          /\ ~s_cancelled) =>
          Len(results) = s_obs.ntasks

\* A step inside run() leaves the log as it is or appends one TaskResult, the
\* one _execute_task returned for the task in progress.
LogAppendOnly ==
    (s_pc \notin {"idle", "init"}) =>
        \/ results' = results
        \/ /\ s_pc = "append"
           /\ Len(results') = Len(results) + 1
           /\ SubSeq(results', 1, Len(results)) = results
           /\ results'[Len(results')] = s_ret

\* C27: during one run() the log is append-only and ordered: it grows by one
\* TaskResult per task executed, a TaskResult once appended is neither removed
\* nor changed, results[i] is the result of tasks[i], and a run with
\* stop_on_error false that nothing cancelled returns with one TaskResult per
\* task, in list order.
C27_LogAppendOnly == []LogOrdered /\ [][LogAppendOnly]_vars

\* C27 witness: a run(stop_on_error=false) returned with a failed result
\* followed by another one.
C27_Witness ==
    /\ s_pc = "idle"
    /\ s_ended = "returned"
    /\ ~s_stop
    /\ Len(results) = 2
    /\ results[1].status = "failed"
    /\ s_obs.ntasks = 2

\* The retry sleeps of the _execute_task call in progress are those the
\* attempts made so far call for: one after every attempt that a further
\* attempt follows, none after the attempt whose action returned normally (the
\* m failures before it are followed by min(m, retry_count) sleeps), none after
\* the final failed attempt.
RetrySleepsExact ==
    LET task == tasks[s_idx]
        i == s_calls.first_ok
        m == IF i > 0 THEN i - 1 ELSE s_calls.act
    IN  /\ s_calls.sleeps = Min(m, task.retry_count)
        /\ (s_pc = "attempt" /\ s_attempt < Attempts(task)) =>
              s_calls.sleeps = s_attempt

\* C32: the scheduler sleeps retry_delay exactly once between two consecutive
\* attempts of a task, never after a successful attempt and never after the
\* final failed one: a task whose action fails m times in a row from the start
\* performs exactly min(m, retry_count) retry sleeps.
C32_RetrySleeps == SchedInTask => RetrySleepsExact

\* C37: an action that has returned normally is not invoked again within the
\* same execution of its task, and the task is recorded as completed with that
\* return value, whatever its on_success hook does, raising included.
C37_SuccessIsFinal ==
    (SchedInTask /\ s_calls.ok > 0) =>
        /\ s_calls.ok = 1
        /\ s_calls.act = s_calls.first_ok
        /\ s_pc \in {"on_success", "append"}
        /\ s_ret.status = "completed"
        /\ s_ret.result = s_calls.first_ok

\* C38: is_running of a TaskScheduler and of an AIAgent is true only while a
\* run() call is in progress: whenever no run() is executing, however the last
\* one ended (return, stop, cancellation, an exception of a collaborator,
\* condition or hook), is_running is false.
C38_RunningOnlyInRun ==
    /\ (s_pc = "idle") => ~SchedIsRunning
    /\ (a_pc = "idle") => ~AgentIsRunning

(***************************************************************************)
(*                           Properties: AIAgent                           *)
(***************************************************************************)

AgentReturned == a_pc = "idle" /\ a_ended = "returned"

\* C3: a run with max_steps = N in which cancel() is not called inside the loop
\* and every plan is an executable action that may proceed makes exactly N
\* iterations and returns N StepResults (steps 0..N-1, whether or not the
\* execution raised, whatever the exception of the action), success false and
\* the step-limit message.
C3_StepBudget ==
    (a_obs.cancelK = NoCancel /\ ~a_obs.notExec) =>
        /\ (a_pc \in {"check", "capture", "plan", "decide", "execute"}) =>
              /\ Len(a_steps) = a_step
              /\ a_step <= a_max_steps
              /\ (a_pc # "check" => a_step < a_max_steps)
        /\ AgentReturned =>
              /\ Len(a_steps) = a_max_steps
              /\ \A i \in 1..Len(a_steps) : a_steps[i].step = i - 1
              /\ a_obs.captures = 0..(a_max_steps - 1)
              /\ a_obs.decisions = 0..(a_max_steps - 1)
              /\ a_obs.execs = 0..(a_max_steps - 1)
              /\ ~a_success
              /\ a_final = "step_limit"

\* C3 witness: a run with max_steps >= 2 has returned at the step limit with one
\* StepResult per step, one of them a step whose execution raised.
C3_Witness ==
    /\ AgentReturned
    /\ a_obs.cancelK = NoCancel
    /\ ~a_obs.notExec
    /\ a_max_steps >= 2
    /\ Len(a_steps) = a_max_steps
    /\ a_final = "step_limit"
    /\ \E i \in 1..Len(a_steps) : ~a_steps[i].success

\* C4: when cancel() is called inside the loop before step k begins
\* (0 < k < max_steps), from any thread and at any point of the steps before,
\* no capture, decision-source call or action of a step >= k is performed, and
\* the run ends cancelled: what it returns has success false and the
\* cancellation message.
C4_CancelAtBoundary ==
    LET k == a_obs.cancelK IN
    (k # NoCancel /\ 0 < k /\ k < a_max_steps) =>
        /\ \A s \in a_obs.captures \cup a_obs.decisions \cup a_obs.execs : s < k
        /\ a_cancelled
        /\ AgentReturned =>
              /\ a_final = "cancelled"
              /\ ~a_success

\* The run was left by an exception of the on_step hook (agent.py:153-154).
OnStepRaised == a_pc = "idle" /\ a_obs.exc = "on_step"

\* plan_action has returned a plan in this run: a_obs.plan is the plan of the
\* step in progress, or the last plan of the run that ended, a_obs.planStep its
\* step.
Planned == a_obs.planStep # NoCancel

\* C15: when the plan of step k signals inability to proceed (can_proceed
\* false), whatever its action type, _execute_action is not called at step k
\* and the run returns failed (success false) with the plan's reason as final
\* message and the k StepResults of the earlier steps.
C15_CannotProceedStops ==
    LET k == a_obs.planStep
        p == a_obs.plan
    IN  (Planned /\ ~p.can_proceed) =>
            /\ k \notin a_obs.execs
            /\ a_pc \in {"decide", "idle"}
            /\ (a_pc = "idle" /\ ~OnStepRaised) =>
                  /\ AgentReturned
                  /\ ~a_success
                  /\ a_final = Reason(p, "cannot_proceed_default")
                  /\ Len(a_steps) = k

\* C16: when the action parsed from the plan of step k is done, the run returns
\* succeeded (success true) with the plan's reason as final message:
\* _execute_action is not called at step k, so no automation primitive is
\* invoked for it, no StepResult is appended for step k, and no boundary check,
\* capture, decision or action of a later step takes place. (The done check
\* comes after the on_step hook: a hook that raises leaves run() before it.)
C16_DoneStops ==
    LET k == a_obs.planStep
        p == a_obs.plan
    IN  (Planned /\ ~ParseActionRaises(p) /\ ParseActionType(p) = "done") =>
            /\ a_pc \in {"decide", "idle"}
            /\ \A s \in a_obs.execs : s < k
            /\ \A s \in a_obs.captures \cup a_obs.decisions : s <= k
            /\ a_obs.lastCheck = k
            /\ Len(a_steps) = k
            /\ (a_pc = "idle" /\ ~OnStepRaised) =>
                  /\ AgentReturned
                  /\ a_success
                  /\ a_final = Reason(p, "done_default")

\* C16 witness: a run returned succeeded on a done plan at a step k >= 1, with
\* the StepResults of the k earlier steps only.
C16_Witness ==
    /\ AgentReturned
    /\ a_obs.planStep >= 1
    /\ a_obs.plan.type = "done"
    /\ a_obs.plan.reason
    /\ a_success
    /\ a_final = "reason"
    /\ Len(a_steps) = a_obs.planStep

\* The plan carries an action that is no recognized one: "action" is no object,
\* or it is an object (or absent) whose type is no ActionType value or is
\* missing.
UnrecognizedAction(p) ==
    \/ p.shape = "bad_action"
    \/ p.shape = "object" /\ p.type \in {"unknown", "missing", "error"}

\* C17: a plan whose action value is unrecognized or missing is parsed to the
\* error action, parsing does not fail (no exception of _parse_action leaves
\* the run), and in every reachable state no action of type error is or was
\* passed to _execute_action: unless the on_step hook raises, the run returns
\* failed at that step.
C17_ErrorNeverExecutes ==
    /\ (a_pc = "execute") => ParseActionType(a_plan) # "error"
    /\ \A i \in 1..Len(a_steps) : a_steps[i].action # "error"
    /\ LET k == a_obs.planStep
           p == a_obs.plan
       IN (Planned /\ UnrecognizedAction(p)) =>
              /\ ParseActionType(p) = "error"
              /\ a_obs.exc # "parse"
              /\ k \notin a_obs.execs
              /\ a_pc \in {"decide", "idle"}
              /\ (a_pc = "idle" /\ ~OnStepRaised) =>
                    /\ AgentReturned
                    /\ ~a_success
                    /\ Len(a_steps) = k

\* C19: when the decision source raises at step k, the run stops without a
\* further decision-source call and without an action for step k or later, and
\* it ends by returning its result, failed, with the steps made so far: the
\* error is recorded in the outcome of the run.
C19_ProviderErrorRecorded ==
    LET k == a_obs.raisedAt IN
    (k # NoCancel) =>
        /\ a_pc = "idle"
        /\ \A s \in a_obs.decisions : s <= k
        /\ \A s \in a_obs.execs : s < k
        /\ Len(a_steps) = k
        /\ a_ended = "returned"
        /\ ~a_success

\* C20: when the response text of step k is not valid JSON, step k is recorded
\* as a failed step (a StepResult with success false) and the loop goes on to
\* the boundary of step k+1: the run does not end at step k (a run that an
\* exception of the on_step hook left aside).
C20_ParseFailureContinues ==
    LET k == a_obs.badTextAt IN
    (k # NoCancel /\ a_pc # "decide" /\ ~OnStepRaised) =>
        /\ Len(a_steps) >= k + 1
        /\ a_steps[k + 1].step = k
        /\ ~a_steps[k + 1].success
        /\ \/ a_pc = "check" /\ a_step = k + 1
           \/ a_obs.lastCheck >= k + 1
           \/ a_final = "step_limit"

\* C28: in every state of run() the steps list holds one StepResult per
\* iteration that reached the execution phase, in order: steps[i].step = i
\* (counted from 0), never more than max_steps of them; every iteration that
\* went on to the next one appended exactly one, and the iteration that ended
\* the run (done, error action, cannot proceed, cancelled) appended none.
C28_StepsPerIteration ==
    /\ \A i \in 1..Len(a_steps) : a_steps[i].step = i - 1
    /\ Len(a_steps) <= a_max_steps
    /\ a_obs.execs = {i - 1 : i \in 1..Len(a_steps)}
    /\ AgentInLoop => Len(a_steps) = a_step
    /\ (AgentReturned /\ a_final # "step_limit") =>
          Len(a_steps) = a_obs.lastCheck

\* C28 witness: a run that executed two steps, one of them failing, was ended
\* by its third iteration.
C28_Witness ==
    /\ AgentReturned
    /\ a_final # "step_limit"
    /\ Len(a_steps) = 2
    /\ a_obs.lastCheck = 2
    /\ ~a_steps[1].success

\* C30: a cancellation request is never lost: when cancel() was called before
\* run() was entered, or while run() was starting up, the run makes no
\* capture, no decision call and no execution, and it returns cancelled at
\* its first boundary check. (A run makes its first capture before any
\* decision call or execution: the request is followed until the first
\* decision call.)
C30_CancelNeverLost ==
    (a_obs.pending /\ a_max_steps > 0 /\ a_pc # "init") =>
        /\ a_obs.captures = {}
        /\ a_obs.decisions = {}
        /\ a_obs.execs = {}
        /\ AgentReturned => a_final = "cancelled"

\* the last n elements of a sequence, in order
LastN(seq, n) ==
    IF Len(seq) <= n THEN seq ELSE SubSeq(seq, Len(seq) - n + 1, Len(seq))

\* the step numbers of the steps executed so far, in execution order
StepNumbers(steps) == [i \in 1..Len(steps) |-> steps[i].step]

\* C33: at step k the decision source is given the summaries of the most
\* recent min(k, 5) previously executed steps, in execution order and nothing
\* older, one summary per prior step.
C33_RecentHistory ==
    (a_pc = "decide") => a_obs.given = LastN(StepNumbers(a_steps), 5)

(***************************************************************************)
(*                        Properties: ImageMatcher                         *)
(***************************************************************************)

\* The threshold find_all and find_multiscale compare against.
CallThreshold == EffectiveThreshold(l_call.args.threshold, l_threshold)

\* C5: for every set of above-threshold candidate matches, no two distinct
\* results returned by find_all have an Intersection-over-Union greater than
\* 0.5.
C5_NmsInvariant ==
    (l_call.op = "find_all" /\ l_call.done) =>
        \A i, j \in 1..Len(l_call.ret) :
            i # j => ~RatLess(<<1, 2>>, Iou(l_call.ret[i], l_call.ret[j]))

\* C5 witness: find_all returned two or more results and fewer than
\* max_results, while a candidate at or above the threshold that overlaps a
\* returned result by more than 0.5 was left out.
C5_Witness ==
    /\ l_call.op = "find_all" /\ l_call.done
    /\ Len(l_call.ret) >= 2
    /\ Len(l_call.ret) < l_call.args.max_results
    /\ \E p \in Candidates(l_call.args.result, CallThreshold) :
          LET m == MatchResult(p[1], p[2], l_call.args.w, l_call.args.h,
                               l_call.args.result[p])
          IN  /\ \A i \in 1..Len(l_call.ret) : l_call.ret[i] # m
              /\ \E i \in 1..Len(l_call.ret) :
                    RatLess(<<1, 2>>, Iou(l_call.ret[i], m))

\* C6: with t the threshold argument whenever one is passed (any level of
\* [0, 1], 0 included) and the instance default otherwise, find returns none
\* when the best confidence c is below t and a MatchResult of confidence c >= t
\* otherwise; every MatchResult the matcher returns has confidence >= t.
C6_ThresholdInForce ==
    LET passed == l_call.args.threshold
        t == IF passed # None THEN passed[1] ELSE l_threshold
    IN  /\ (l_call.op = "find" /\ l_call.done) =>
              LET c == BestConfidence(l_call.args.method, l_call.args.mm)
              IN  /\ c < t => l_call.ret = None
                  /\ c >= t => l_call.ret # None /\ l_call.ret[1].confidence = c
        /\ (l_call.op = "find_all" /\ l_call.done) =>
              \A i \in 1..Len(l_call.ret) : l_call.ret[i].confidence >= t
        /\ (l_call.op = "find_multiscale" /\ l_call.done) =>
              (l_call.ret # None => l_call.ret[1].confidence >= t)

\* The results of find at the scales of the call whose resized template has
\* positive width and height.
FoundAtScales ==
    LET a == l_call.args
        list == ScalesOf(a.scales)
    IN  { FindAtScale(CallThreshold, l_threshold, a.resp, a.w, a.h, list[i]) :
            i \in { k \in DOMAIN list : /\ ScaledSize(a.w, list[k]) >= 1
                                        /\ ScaledSize(a.h, list[k]) >= 1 } }
        \ {None}

\* C10: find_multiscale returns the match of highest confidence among the
\* results of find over the scales whose resized template has positive width
\* and height, and none exactly when no such scale yields a match; so its
\* confidence is at least that of find at scale 1.0 when 1.0 is a scale.
C10_MultiscaleBest ==
    (l_call.op = "find_multiscale" /\ l_call.done) =>
        /\ (l_call.ret = None) <=> (FoundAtScales = {})
        /\ l_call.ret # None =>
              /\ l_call.ret \in FoundAtScales
              /\ \A m \in FoundAtScales :
                    m[1].confidence <= l_call.ret[1].confidence
        /\ \A i \in DOMAIN ScalesOf(l_call.args.scales) :
              ScalesOf(l_call.args.scales)[i] = 4 =>
                 LET one == FindAtScale(CallThreshold, l_threshold,
                                        l_call.args.resp, l_call.args.w,
                                        l_call.args.h, 4)
                 IN  one # None =>
                        /\ l_call.ret # None
                        /\ l_call.ret[1].confidence >= one[1].confidence

\* The reference suppression: candidates in descending confidence, the highest
\* remaining one kept, another one discarded exactly when its IoU with a kept
\* candidate exceeds the threshold.
RECURSIVE ReferenceNmsLoop(_, _, _)
ReferenceNmsLoop(matches, keep, overlap_threshold) ==
    IF matches = <<>> THEN keep
    ELSE LET current == Head(matches)
             rest == SelectSeq(Tail(matches),
                        LAMBDA m : ~RatLess(overlap_threshold, Iou(current, m)))
         IN  ReferenceNmsLoop(rest, Append(keep, current), overlap_threshold)

ReferenceFindAll(threshold, default, result, w, h, max_results) ==
    LET t == EffectiveThreshold(threshold, default)
        pts == RowMajor(Candidates(result, t))
        matches == [i \in 1..Len(pts) |->
                        MatchResult(pts[i][1], pts[i][2], w, h, result[pts[i]])]
        kept == ReferenceNmsLoop(SortedByConfidence(matches), <<>>, OverlapThreshold)
    IN  Take(kept, max_results)

\* C22: find_all returns what the reference greedy non-maximum suppression
\* returns for the same candidates: a candidate is discarded exactly when its
\* IoU with a kept one exceeds 0.5 (one with IoU exactly 0.5 survives), and
\* the result is the max_results best survivors in descending confidence.
C22_NmsIsReference ==
    (l_call.op = "find_all") =>
        l_call.ret = ReferenceFindAll(l_call.args.threshold, l_threshold,
                                      l_call.args.result, l_call.args.w,
                                      l_call.args.h, l_call.args.max_results)

(***************************************************************************)
(*                        Properties: plan parsers                         *)
(***************************************************************************)

\* The outcome of the parser of the call on another text.
SameParserOn(text) ==
    CASE p_call.parser = "web" -> WebExecuteAction(text)
      [] p_call.parser = "run" -> RunExecuteAction(text)
      [] p_call.parser = "vision" -> VisionPlanAction(text)

HasToken(s, tok) == \E i \in DOMAIN s : s[i] = tok

\* C7: for every wire-format object J that does not itself contain the fence
\* marker, each parser gives J wrapped in a fenced block with the json tag the
\* outcome it gives J unwrapped: the object J, with the same type and fields.
C7_FencedSameAsPlain ==
    (p_call.in.shape = "fenced" /\ ~HasToken(p_call.in.j, FENCE)) =>
        /\ p_call.out = SameParserOn(p_call.in.j)
        /\ p_call.out.action = JsonLoads(p_call.in.j)
        /\ p_call.out.action.valid

\* C7 witness: a fenced object whose reason holds a brace but no fence marker
\* has been parsed to that object.
C7_Witness ==
    /\ p_call.in.shape = "fenced"
    /\ ~HasToken(p_call.in.j, FENCE)
    /\ Len(p_call.in.j) > 5
    /\ p_call.in.j[4] = RB
    /\ p_call.out.action.valid
    /\ p_call.out.action.reason # None

\* C7 as stated, for every wire-format object J: each parser gives J wrapped
\* in a fenced block with the json tag the outcome it gives J unwrapped.
C7_FencedSameAsPlainForEveryObject ==
    p_call.in.shape = "fenced" => p_call.out = SameParserOn(p_call.in.j)

\* C8, in the case most favourable to it (neither the prose nor J holds a
\* fence marker, so only the first-brace-to-last-brace rule is at work): for
\* every object J and every leading and trailing prose without braces, each
\* parser gives prose + J + prose the outcome it gives J alone, the object J.
C8_ProseAroundObject ==
    (/\ p_call.in.shape = "prose"
     /\ ~HasToken(p_call.in.text, FENCE)) =>
        /\ p_call.out = SameParserOn(p_call.in.j)
        /\ p_call.out.action = JsonLoads(p_call.in.j)

\* C9: a plan text in which '{' or '}' is absent is unparsable for the parsers
\* of web.py and run.py: the call reports the failure value and invokes no
\* automation primitive; and no call that stops before the dispatch (an
\* unparsable or a malformed text) invokes one.
C9_NoBraceUnparsable ==
    p_call.parser \in {"web", "run"} =>
        /\ (~HasToken(p_call.in.text, LB) \/ ~HasToken(p_call.in.text, RB)) =>
              /\ p_call.out.kind = "unparsable"
              /\ ~p_call.out.done
              /\ p_call.out.prim = "none"
        /\ p_call.out.kind # "executed" => p_call.out.prim = "none"

\* C9 witness: web.py's parser was given a text with a fence marker and an
\* opening brace but no closing brace, and reported it unparsable.
C9_Witness ==
    /\ p_call.parser = "web"
    /\ HasToken(p_call.in.text, LB)
    /\ HasToken(p_call.in.text, FENCE)
    /\ ~HasToken(p_call.in.text, RB)
    /\ p_call.out.kind = "unparsable"

(***************************************************************************)
(*                          Properties: web host                           *)
(***************************************************************************)

\* The worker is the only one this behaviour started and nobody asked to stop.
Undisturbed(w) ==
    /\ ~w_obs.stopped
    /\ \A v \in Workers \ {w} : w_pc[v] = "none"

WorkerOver(w) == w_pc[w] \in {"final", "ended"}

\* C18: when executing the action of step k raises, the error is caught,
\* step k is logged as failed and the loop goes on to step k+1: a worker
\* that nothing else disturbs does not end at a step k before the last one
\* because execute_action raised there.
C18_ExecutionFailureContinues ==
    \A w \in Workers :
        LET k == w_obs.execRaisedAt[w]
        IN  (k # WNone /\ k + 1 < WebSteps /\ Undisturbed(w) /\ WorkerOver(w))
                => w_step[w] > k

\* C29: every answer of /api/task/status is consistent: in a run without an
\* error entry the current_step it shows is the number of steps it contains.
C29_SnapshotConsistent ==
    (w_snap # NoSnapshot) =>
        LET snap == w_snap[1] IN
        (snap.error = "none"
           /\ \A i \in 1..Len(snap.steps) : snap.steps[i].result # "error") =>
            snap.current_step = Len(snap.steps)

\* C35: at most one worker executes steps at any time; a start request that
\* arrives while a task is running, also between the acceptance of another
\* start request and its worker marking the task as running, creates no second
\* worker. (Stop requests are left out: no stop has been asked for.)
C35_OneWorker ==
    ~w_obs.stopped => Cardinality({w \in Workers : InStep(w)}) <= 1

\* C36: once a stop request has been processed, the worker it stopped executes
\* no step other than the one already in progress, whatever start, stop and
\* status requests follow: a stopped worker never resumes.
C36_StoppedWorkerStops ==
    \A w \in Workers :
        (w_obs.stopBound[w] # WNone /\ InStep(w)) => w_step[w] < w_obs.stopBound[w]

(***************************************************************************)
(*                        Properties: polling waits                        *)
(***************************************************************************)

WaitForCalled == wt_call.op = "wait_for"

\* wait_for: a poll is a capture followed by find on that frame; the match of
\* the first poll whose find succeeds is returned and nothing is captured
\* after it; none is returned only once the timeout has elapsed; a timeout
\* <= 0 captures nothing.
WaitForSafe ==
    WaitForCalled =>
        /\ wt_obs.hitAt # 0 =>
              /\ wt_pc = "done"
              /\ wt_obs.captures = wt_obs.hitAt
              /\ wt_ret = Some(MatchResult(wt_obs.hitAt, 0, 1, 1, MaxConf))
        /\ (wt_pc = "done" /\ wt_obs.hitAt = 0) =>
              /\ wt_ret = None
              /\ wt_now - wt_start >= wt_call.timeout
        /\ wt_pc = "done" => (wt_ret # None <=> wt_obs.hitAt # 0)
        /\ wt_call.timeout <= 0 => wt_obs.captures = 0
        /\ wt_pc \in {"find", "sleep"} => wt_obs.captures > 0

\* C23: wait_for polls by a capture and then find on that frame, returns the
\* match of the first successful poll without capturing again, returns none
\* once the timeout has elapsed, captures nothing when timeout <= 0, and,
\* time advancing, always returns.
C23_WaitForPolls == []WaitForSafe /\ (WaitForCalled ~> (wt_pc = "done"))

\* wait_for returned the match of its second poll, and, in another call,
\* none after polling in vain.
C23_Witness ==
    /\ WaitForCalled
    /\ wt_pc = "done"
    /\ wt_obs.hitAt = 2
    /\ wt_ret # None

C23_WitnessTimeout ==
    /\ WaitForCalled
    /\ wt_pc = "done"
    /\ wt_ret = None
    /\ wt_obs.captures >= 2

\* C24: the polling waits never poll faster than interval: between any two
\* consecutive captures of wait_for and of wait_until_gone there is exactly
\* one sleep, and at least interval lies between them.
C24_OneSleepBetweenCaptures ==
    wt_obs.captures >= 2 =>
        /\ wt_obs.gap = 1
        /\ wt_obs.capAt - wt_obs.prevAt >= wt_call.interval

\* wait_until_gone made its third capture, with a positive interval.
C24_Witness ==
    /\ wt_call.op = "wait_until_gone"
    /\ wt_call.interval > 0
    /\ wt_obs.captures >= 3
    /\ wt_pc = "find"

(***************************************************************************)
(*                      Properties: action executors                       *)
(***************************************************************************)

\* C31: when an action is executed, a scroll without direction scrolls down
\* and a wait without duration waits 1 second; only the direction "up" scrolls
\* up, every other direction value scrolls down, and both scroll by 5.
C31_NeutralDefaults ==
    \A i \in 1..Len(x_log) :
        LET e == x_log[i] IN
        /\ e.act = "scroll" =>
             /\ e.call.arg = JNum(5)
             /\ ~e.call.raised
             /\ e.call.prim = IF e.field = JStr("up") THEN "scroll_up"
                              ELSE "scroll_down"
        /\ (e.act = "wait" /\ e.field = JAbsent) =>
             e.call = [prim |-> "sleep", arg |-> JNum(1), raised |-> FALSE]

\* the agent has scrolled down for want of a direction, then the web host has
\* waited for want of a duration
C31_Witness ==
    /\ Len(x_log) = 2
    /\ x_log[1].act = "scroll" /\ x_log[1].field = JAbsent
    /\ x_log[1].call.prim = "scroll_down"
    /\ x_log[2].act = "wait" /\ x_log[2].field = JAbsent
    /\ x_log[2].executor = "web" /\ x_log[1].executor = "agent"

(***************************************************************************)
(*                   Properties: auxiliary operations                      *)
(***************************************************************************)

\* the clicks among the calls made on the automation object
Clicks == SelectSeq(u_log, LAMBDA c : c[1] = "click")

\* C34: click and find_and_click click at most once and only at the position
\* the decision source resolved; find_and_click returns true at the first poll
\* that resolves the target, and false with zero clicks when no poll resolved
\* it before the timeout; type_at types the text only after its click
\* succeeded. No input is ever injected for an unresolved target: none either
\* by a call that an exception of find_element leaves, which returns nothing.
C34_NoInputForUnresolvedTarget ==
    /\ Len(Clicks) <= 1
    /\ (u_pc = "raised") => (u_log = <<>> /\ u_ret = None /\ u_obs.firstHit = 0)
    /\ (Len(Clicks) = 1) =>
          /\ u_obs.position # None
          /\ Clicks[1] = <<"click", u_obs.position[1]>>
          /\ u_obs.firstHit = u_obs.polls
          /\ u_log[1] = Clicks[1]
    /\ (u_obs.firstHit = 0) => u_log = <<>>
    /\ (Len(u_log) > Len(Clicks)) =>
          /\ u_call.op = "type_at"
          /\ Len(Clicks) = 1
          /\ u_log = <<Clicks[1], <<"write", "text">> >>
    /\ (u_pc = "done" /\ u_call.op = "find_and_click") =>
          /\ (u_ret = Some(TRUE)) <=> (u_obs.firstHit > 0)
          /\ (u_ret = Some(TRUE)) => Len(Clicks) = 1
          /\ (u_ret = Some(FALSE)) =>
                Len(Clicks) = 0 /\ Elapsed(u_now, u_start, u_call.timeout)
    /\ (u_pc = "done" /\ u_call.op = "click") =>
          u_ret = Some(Len(Clicks) = 1)
    /\ (u_pc = "done" /\ u_call.op = "type_at") =>
          u_ret = Some(Len(u_log) = 2)

\* find_and_click has returned true at its second poll, having clicked once at
\* the centre of the element resolved there
C34_Witness ==
    /\ u_pc = "done"
    /\ u_call.op = "find_and_click"
    /\ u_ret = Some(TRUE)
    /\ u_obs.polls = 2
    /\ u_obs.firstHit = 2
    /\ u_log = << <<"click", <<2, 0>> >> >>

====